---- MODULE Spec2Model ----
(***************************************************************************)
(* Model of the Hevy -> Notion synchronisation engine                      *)
(* (src/function/hevy_webhook/notion_handler.py): the rate-limited,        *)
(* retrying request gateway, the identifier resolver, the entity upserts   *)
(* and the batch fan-out.                                                  *)
(*                                                                         *)
(* Coroutines run on one event loop, so a step of the model is the code a  *)
(* task runs between two suspension points (an await that really waits).   *)
(***************************************************************************)
EXTENDS Integers, Sequences, FiniteSets, TLC

----------------------------------------------------------------------------
(* Program constants (notion_handler.py lines 13-17).                      *)

NOTION_SEMAPHORE_LIMIT == 2
\* 0.5 seconds, written in milliseconds
NOTION_REQUEST_DELAY == 500
NOTION_MAX_RETRIES == 5
\* seconds
NOTION_RETRY_BASE_DELAY == 2
\* seconds
NOTION_MAX_RETRY_DELAY == 30

----------------------------------------------------------------------------
(* Bounds of the model.                                                    *)

\* number of concurrent callers of the gateway in SpecGateway
NumCallers == 3
\* largest number of entities in a batch of Spec
MaxBatch == 2
\* number of times SpecSeq upserts its entity, one time after the other
MaxRounds == 2
\* largest number of requests of a batch of Spec the destination does not
\* answer with 200
MaxFaults == 2
\* largest number of workouts the fetch of a full sync returns in SpecRun
MaxWorkouts == 2
\* SpecLoops: addresses an event loop may be allocated at, invocations,
\* and gateway calls of an invocation
NumAddresses == 2
MaxInvocations == 3
MaxCalls == 2
\* SpecProps: the heaviest weight of a set, in hundredths of a kilogram
MaxWeight == 10000
\* largest number of requests of a run of SpecRun the destination does not
\* answer with 200
RunFaults == 1

Tasks == 1..(IF NumCallers > MaxBatch THEN NumCallers ELSE MaxBatch)

----------------------------------------------------------------------------
(* Values.                                                                 *)

\* Python's None where a string is expected
None == "None"
\* Python's None where a JSON body is expected
NoneData == [isNone |-> TRUE, ids |-> <<>>]
\* a JSON body: the ids of the pages it carries
JsonBody(ids) == [isNone |-> FALSE, ids |-> ids]

\* the responses other than 200 the destination may still give: at most n,
\* or any number
Budget(n) == [limited |-> TRUE, left |-> n]
Unlimited == [limited |-> FALSE, left |-> 0]

\* the Retry-After header is absent
NoHeader == -1
\* Retry-After values a 429 response may carry: below and above the ceiling
RetryAfterValues == {1, 60}
\* statuses that are neither 200 nor 429
OtherStatuses == {400, 503}

HttpResponse(status, retry_after) ==
  [kind |-> "http", status |-> status, retry_after |-> retry_after]
\* the request timed out (asyncio.TimeoutError)
TimeoutResponse == [kind |-> "timeout", status |-> 0, retry_after |-> NoHeader]
\* the send raised an error the gateway does not catch (aiohttp.ClientError)
ErrorResponse == [kind |-> "error", status |-> 0, retry_after |-> NoHeader]
\* no response received yet
NoResponse == [kind |-> "none", status |-> 0, retry_after |-> NoHeader]

RateLimited(h) == HttpResponse(429, h)

AllResponses ==
  {HttpResponse(200, NoHeader)}
    \cup {RateLimited(h) : h \in RetryAfterValues \cup {NoHeader}}
    \cup {HttpResponse(s, NoHeader) : s \in OtherStatuses}
    \cup {TimeoutResponse, ErrorResponse}

\* What the destination does in a run: "any" answers each request freely,
\* "flaky" with 200, 429, 503 or a broken connection, the other modes
\* answer every request the same way.
DestModes == {"any", "flaky", "ok", "rate_limited", "timeout"}

Responses(mode) ==
  CASE mode = "ok" -> {HttpResponse(200, NoHeader)}
    [] mode = "flaky" -> {HttpResponse(200, NoHeader), RateLimited(NoHeader),
                          HttpResponse(503, NoHeader), ErrorResponse}
    [] mode = "rate_limited" -> {RateLimited(NoHeader)}
    [] mode = "timeout" -> {TimeoutResponse}
    [] OTHER -> AllResponses

\* the error text of a failed response
ErrorText(status) == IF status = 400 THEN "validation_error" ELSE "service_unavailable"

\* result of a gateway call: (status_code, response_json, error_text)
Result(status, data, error) == [status |-> status, data |-> data, error |-> error]
\* the call has not returned
NoResult == Result(-1, NoneData, None)
\* the call ended by raising
Raised == Result(-2, NoneData, "raised")

\* a page id; page ids are positive
NoPage == 0

\* no semaphore
NoSemaphore == [created_in |-> 0, bound_to |-> 0]
\* no event loop has run, and _semaphore_cache is empty (line 20)
NoLoops ==
  [serial |-> 0, running |-> FALSE, address |-> 0, cache |-> {},
   used |-> NoSemaphore, calls |-> 0]
\* nothing is being built
NoBuilt ==
  [kind |-> "none", entity |-> <<>>, exercise |-> <<>>, exercise_index |-> 0,
   set_index |-> 0, pages |-> <<>>, properties |-> {}, relations |-> {},
   state |-> "none"]
\* add_workout_to_notion has not been called; the workouts database is empty
NoLegacy ==
  [pc |-> "idle", workout_id |-> "", page_id |-> NoPage, pages |-> {},
   nextPage |-> 1, calls |-> 0, outcome |-> "none"]
\* the client identifiers check_rate_limit is called with
Identifiers == {"a", "b"}
\* check_rate_limit has decided nothing yet
NoDecision == [identifier |-> "", is_allowed |-> FALSE, retry_after |-> 0]
\* _request_counts = defaultdict(list) (function_app.py line 25), at second
\* 0 of the clock
NoLimiter ==
  [now |-> 0, counts |-> [i \in Identifiers |-> <<>>],
   allowed |-> [i \in Identifiers |-> <<>>], last |-> NoDecision]
\* the task raised instead of returning
Exc == -1
\* the task has not returned
Pending == -2

\* properties of a page: the Hevy ID and the relation properties, a dict
\* given as a set of [key, relation] items (a relation is a list of ids)
Properties(hevy_id, relations) == [hevy |-> hevy_id, relations |-> relations]

\* what a request carries: the database it names, the Hevy ID it filters
\* on or writes, and the relation properties it writes
Payload(database, properties) ==
  [database |-> database, hevy |-> properties.hevy,
   relations |-> properties.relations]
Json(database, hevy) == Payload(database, Properties(hevy, {}))
NoRequest == [method |-> None, url |-> None, page |-> NoPage, json |-> Json(None, None)]
Request(method, url, page, json) ==
  [method |-> method, url |-> url, page |-> page, json |-> json]

\* a page of a destination database
Page(id, database, properties) ==
  [id |-> id, database |-> database, hevy |-> properties.hevy,
   relations |-> properties.relations]

\* the properties of a page after a PATCH with the properties of the
\* payload: the properties the payload names are replaced, the others stay
Patched(p, json) ==
  Page(p.id, p.database,
       Properties(json.hevy,
                  {r \in p.relations : \A w \in json.relations : w.key # r.key}
                    \cup json.relations))

\* dict.get(key, default)
Get(d, key, default) == IF key \in DOMAIN d THEN d[key] ELSE default

\* dict[key] = value, a dict being a set of [key, page] items
DictSet(d, key, value) ==
  {e \in d : e.key # key} \cup {[key |-> key, page |-> value]}

\* the source entities a batch is drawn from: flat, wrapped one level, and
\* without an id
EntityPool ==
  {[id |-> "a"], [exercise_template |-> [id |-> "b"]], [title |-> "Squat"]}

TEMPLATES_DB == "templates"

Min(a, b) == IF a < b THEN a ELSE b

RECURSIVE Pow2(_)
Pow2(n) == IF n = 0 THEN 1 ELSE 2 * Pow2(n - 1)

----------------------------------------------------------------------------
VARIABLES
  \* asyncio.Semaphore of the running loop: free permits and queued tasks
  sem_value, sem_waiters,
  \* position of each task in its caller:
  \* "idle", "call" (a bare gateway call), "query", "write", "done"
  pc,
  \* position of each task in notion_request_with_retry:
  \* "idle", "waiting", "pacing", "inflight", "backoff"
  gw,
  \* loop variable of notion_request_with_retry
  attempt,
  \* arguments of the running gateway call
  req,
  \* the requests physically sent by the running gateway call, in order
  sent,
  \* the response the task is backing off from
  resp,
  \* seconds of the backoff sleep the task is in (0 when in none)
  wait,
  \* milliseconds the task has slept since it acquired its permit
  slept,
  \* what the gateway call of the task returned: to the caller of a bare
  \* call, or to find_page_by_hevy_id
  ret,
  \* behaviour of the destination in this run
  destMode,
  \* requests the destination may still answer with something else than
  \* 200 (Unlimited: any number)
  budget,
  \* the pages of the destination databases, and the next page id
  db, nextPage,
  \* the entities handed to the batch fan-out; task i upserts batch[i]
  batch,
  \* existing_page_id of each upsert
  found,
  \* outcome of each upsert: a page id, NoPage (None), Exc or Pending
  result,
  \* "gather" while the fan-out awaits its tasks, "returned" afterwards
  phase,
  \* what the fan-out returned
  count, id_mapping,
  \* SpecSeq: number of the upsert the caller is in, and the outcome of the
  \* one before
  round, prev,
  \* the kind of upsert the tasks run ("templates", "routines", "workout",
  \* "sets"), or the position of the orchestrator between two stages
  stage,
  \* the locals of the orchestrator (perform_full_sync with
  \* sync_workouts_and_sets, or process_workout_webhook)
  run,
  \* the stages that sent a request to the destination, in the order of
  \* their first request and of every later change of stage
  issued,
  \* SpecLoops: the event loops of the invocations and the module's
  \* _semaphore_cache
  loops,
  \* SpecProps: an entity of the source and the properties built for it
  built,
  \* SpecLegacy: the position and the locals of add_workout_to_notion, with
  \* the pages of the workouts database it writes to
  legacy,
  \* SpecRate: the clock, _request_counts, the times of the requests
  \* check_rate_limit allowed, and its last decision
  limiter

vars == <<sem_value, sem_waiters, pc, gw, attempt, req, sent, resp, wait,
          slept, ret, destMode, budget, db, nextPage, batch, found, result,
          phase, count, id_mapping, round, prev, stage, run, issued, loops,
          built, legacy, limiter>>

fanoutVars == <<batch, phase, count, id_mapping, round, prev, stage, run,
                loops, built, legacy, limiter>>

\* the variables of the gateway, the fan-out and the orchestrators
syncVars == <<sem_value, sem_waiters, pc, gw, attempt, req, sent, resp, wait,
              slept, ret, destMode, budget, db, nextPage, batch, found, result,
              phase, count, id_mapping, round, prev, stage, run, issued>>

----------------------------------------------------------------------------
(* The semaphore.  asyncio.Semaphore is first-in first-out: release()      *)
(* hands the permit to the first queued task, acquire() takes a free       *)
(* permit only when no task is queued.  A semaphore state is the record    *)
(* [value, waiters, gw, slept].                                            *)

SemState == [value |-> sem_value, waiters |-> sem_waiters, gw |-> gw, slept |-> slept]

\* Acquire as it would be if the permit count were not looked at
AcquireNoLimit(t, s) ==
  [s EXCEPT !.value = @ - 1, !.gw[t] = "pacing", !.slept[t] = 0]

\* `async with semaphore:` entered by task t
Acquire(t, s) ==
  IF s.value > 0 /\ s.waiters = <<>>
    THEN [s EXCEPT !.value = @ - 1, !.gw[t] = "pacing", !.slept[t] = 0]
    ELSE [s EXCEPT !.waiters = Append(@, t), !.gw[t] = "waiting"]

\* Release as it would be if the permit were lost when the block is left
ReleaseLeaksPermit(t, s) == [s EXCEPT !.gw[t] = "idle"]

\* Release as it would be if the permit were never handed to a queued task
ReleaseWakesNobody(t, s) ==
  [s EXCEPT !.value = @ + 1, !.gw[t] = "idle"]

\* `async with semaphore:` left by task t (return, continue or raise)
Release(t, s) ==
  IF s.waiters = <<>>
    THEN [s EXCEPT !.value = @ + 1, !.gw[t] = "idle"]
    ELSE [s EXCEPT !.waiters = Tail(@), !.gw[t] = "idle",
                   !.gw[Head(s.waiters)] = "pacing",
                   !.slept[Head(s.waiters)] = 0]

SetSem(s) ==
  /\ sem_value' = s.value
  /\ sem_waiters' = s.waiters
  /\ gw' = s.gw
  /\ slept' = s.slept

----------------------------------------------------------------------------
(* The destination service.                                                *)

RECURSIVE Orders(_)
\* the orders in which the destination may list a set of pages
Orders(S) ==
  IF S = {} THEN {<<>>}
  ELSE UNION {{<<p>> \o o : o \in Orders(S \ {p})} : p \in S}

Matches(d, json) == {p \in d : p.database = json.database /\ p.hevy = json.hevy}

\* What answering the request with 200 may do: the databases afterwards
\* and the body of the response.
ServerOutcomes(request, d, n) ==
  CASE request.url = "query" ->
         {[db |-> d, nextPage |-> n, body |-> JsonBody(o)] :
            o \in Orders({p.id : p \in Matches(d, request.json)})}
    [] request.url = "pages" /\ request.method = "POST" ->
         {[db |-> d \cup {Page(n, request.json.database,
                               Properties(request.json.hevy, request.json.relations))},
           nextPage |-> n + 1, body |-> JsonBody(<<n>>)]}
    [] request.url = "page" /\ request.method = "PATCH" ->
         {[db |-> {IF p.id = request.page THEN Patched(p, request.json) ELSE p : p \in d},
           nextPage |-> n, body |-> JsonBody(<<request.page>>)]}
    [] OTHER -> {[db |-> d, nextPage |-> n, body |-> JsonBody(<<>>)]}

----------------------------------------------------------------------------
(* find_page_by_hevy_id, create_or_update_page, upsert_exercise_template   *)

\* template.get("exercise_template", template)
TemplateData(template) == Get(template, "exercise_template", template)

\* template_data.get("id", "")
HevyId(template) == Get(TemplateData(template), "id", "")

\* the query find_page_by_hevy_id sends (lines 164-169)
QueryRequest(database_id, hevy_id) ==
  Request("POST", "query", NoPage, Json(database_id, hevy_id))

\* FoundPage as it would be if the query had to be answered 201
FoundPageWrongStatus(rv) ==
  IF rv.status = 201 /\ ~rv.data.isNone
    THEN IF rv.data.ids # <<>> THEN rv.data.ids[1] ELSE NoPage
    ELSE NoPage

\* what find_page_by_hevy_id returns for the result of its query (171-178)
FoundPage(rv) ==
  IF rv.status = 200 /\ ~rv.data.isNone
    THEN IF rv.data.ids # <<>> THEN rv.data.ids[1] ELSE NoPage
    ELSE NoPage

\* the request create_or_update_page sends (lines 203-219)
WriteRequest(database_id, page_id, properties) ==
  IF page_id # NoPage
    THEN Request("PATCH", "page", page_id, Payload(None, properties))
    ELSE Request("POST", "pages", NoPage, Payload(database_id, properties))

\* what create_or_update_page returns for the result of its write (221-226)
WrittenPage(rv) ==
  IF rv.status = 200 /\ ~rv.data.isNone /\ rv.data.ids # <<>>
    THEN rv.data.ids[1] ELSE NoPage

----------------------------------------------------------------------------
(* upsert_routine, upsert_workout, upsert_set: what they look up and write *)

ROUTINES_DB == "routines"
WORKOUTS_DB == "workouts"
SETS_DB == "sets"

Digits == <<"0", "1", "2", "3", "4", "5", "6", "7", "8", "9">>

RECURSIVE Dec(_)
\* str(n) of a non-negative integer
Dec(n) == IF n < 10 THEN Digits[n + 1] ELSE Dec(n \div 10) \o Digits[(n % 10) + 1]

\* The id the destination gives page n, as the list of its characters
\* grouped between the separators: a UUID with its "-" separators.
PageIdText(n) == <<"00000000", "-", "0000", "-", Dec(n)>>

\* StripDashes as it would be if the id were passed on as it is
StripNothing(text) == text

\* page_id.replace("-", "")
StripDashes(text) == SelectSeq(text, LAMBDA c : c # "-")

\* {"relation": [{"id": page_id.replace("-", "")}]}
Relation(key, page_id) == [key |-> key, relation |-> <<StripDashes(PageIdText(page_id))>>]

\* routine.get("routine", routine)
RoutineData(routine) == Get(routine, "routine", routine)

\* workout.get("workout", workout)
WorkoutData(workout) == Get(workout, "workout", workout)

\* the properties upsert_workout builds (lines 493-529)
WorkoutProperties(workout, routine_page_id) ==
  Properties(Get(WorkoutData(workout), "id", ""),
             IF routine_page_id # NoPage
               THEN {Relation("Routine", routine_page_id)} ELSE {})

\* CompositeSetId as it would be if the set index were left out
CompositeSetIdNoSet(workout_id, exercise_index, set_index) ==
  workout_id \o "-" \o Dec(exercise_index)

\* f"{workout_id}-{exercise_index}-{set_index}" (line 579)
CompositeSetId(workout_id, exercise_index, set_index) ==
  workout_id \o "-" \o Dec(exercise_index) \o "-" \o Dec(set_index)

\* SetProperties as it would be without the Workout relation
SetPropertiesNoWorkout(a) ==
  Properties(CompositeSetId(a.workout_id, a.exercise_index, a.set_index),
             IF a.exercise_template_page_id # NoPage
               THEN {Relation("Exercise", a.exercise_template_page_id)} ELSE {})

\* SetProperties as it would be if the Exercise key were written with an
\* empty relation when there is no template page
SetPropertiesEmptyExercise(a) ==
  Properties(CompositeSetId(a.workout_id, a.exercise_index, a.set_index),
             (IF a.workout_page_id # NoPage
                THEN {Relation("Workout", a.workout_page_id)} ELSE {})
               \cup
             (IF a.exercise_template_page_id # NoPage
                THEN {Relation("Exercise", a.exercise_template_page_id)}
                ELSE {[key |-> "Exercise", relation |-> <<>>]}))

\* the properties upsert_set builds (lines 594-625); a is the record of
\* the arguments of upsert_set
SetProperties(a) ==
  Properties(CompositeSetId(a.workout_id, a.exercise_index, a.set_index),
             (IF a.workout_page_id # NoPage
                THEN {Relation("Workout", a.workout_page_id)} ELSE {})
               \cup
             (IF a.exercise_template_page_id # NoPage
                THEN {Relation("Exercise", a.exercise_template_page_id)} ELSE {}))

\* The upserts differ in the database they are given and in the
\* properties they build; kind names the upsert and args its arguments:
\* the entity for a template or a routine, [workout, routine_page_id] for
\* a workout, the arguments of upsert_set for a set.
UpsertProperties(kind, args) ==
  CASE kind = "templates" -> Properties(HevyId(args), {})
    [] kind = "routines" -> Properties(Get(RoutineData(args), "id", ""), {})
    [] kind = "workout" -> WorkoutProperties(args.workout, args.routine_page_id)
    [] kind = "sets" -> SetProperties(args)

\* the database id the upserts of the kind are given
Database(kind) ==
  CASE kind = "templates" -> run.templates_db_id
    [] kind = "routines" -> run.routines_db_id
    [] kind = "workout" -> run.workouts_db_id
    [] kind = "sets" -> run.sets_db_id
    [] OTHER -> None

\* the request has a new entry in the log of the stages
Logged(log, kind) ==
  IF log # <<>> /\ log[Len(log)] = kind THEN log ELSE Append(log, kind)

----------------------------------------------------------------------------
(* notion_request_with_retry                                               *)

\* RetryDelay as it would be without the ceiling
RetryDelayUncapped(r, k) ==
  IF r.retry_after = NoHeader
    THEN NOTION_RETRY_BASE_DELAY * Pow2(k)
    ELSE r.retry_after

\* RetryDelay as it would be if the Retry-After header were not read
RetryDelayNoHeader(r, k) ==
  Min(NOTION_RETRY_BASE_DELAY * Pow2(k), NOTION_MAX_RETRY_DELAY)

\* the wait after a 429 response at the given attempt (lines 83-84)
RetryDelay(r, k) ==
  LET header_delay == IF r.retry_after = NoHeader
                        THEN NOTION_RETRY_BASE_DELAY * Pow2(k)
                        ELSE r.retry_after
  IN  Min(header_delay, NOTION_MAX_RETRY_DELAY)

\* TimeoutDelay as it would be with a linear backoff
TimeoutDelayLinear(k) == NOTION_RETRY_BASE_DELAY * (k + 1)

\* the wait after a timeout at the given attempt (line 122)
TimeoutDelay(k) == NOTION_RETRY_BASE_DELAY * Pow2(k)

Methods == <<"GET", "POST", "PATCH">>

ValidMethod(m) == m \in {"GET", "POST", "PATCH"}

\* the locals of the call (attempt, request) go out of scope; r, the last
\* response the call received, stays on record
EndCall(t, r) ==
  /\ attempt' = [attempt EXCEPT ![t] = 0]
  /\ req' = [req EXCEPT ![t] = NoRequest]
  /\ sent' = [sent EXCEPT ![t] = <<>>]
  /\ resp' = [resp EXCEPT ![t] = r]
  /\ wait' = [wait EXCEPT ![t] = 0]

\* a new call of task t begins with the request: attempt 0, no response
BeginCall(t, request, s) ==
  /\ attempt' = [attempt EXCEPT ![t] = 0]
  /\ req' = [req EXCEPT ![t] = request]
  /\ sent' = [sent EXCEPT ![t] = <<>>]
  /\ resp' = [resp EXCEPT ![t] = NoResponse]
  /\ wait' = [wait EXCEPT ![t] = 0]
  /\ SetSem(Acquire(t, s))

\* the bare gateway call of task t returns rv to its caller
CallReturn(t, rv, s, r) ==
  /\ pc' = [pc EXCEPT ![t] = "done"]
  /\ ret' = [ret EXCEPT ![t] = rv]
  /\ SetSem(s)
  /\ EndCall(t, r)
  /\ UNCHANGED <<found, result>>

\* the upsert of task t ends with the outcome
UpsertReturn(t, outcome, s, r) ==
  /\ pc' = [pc EXCEPT ![t] = "done"]
  /\ result' = [result EXCEPT ![t] = outcome]
  /\ SetSem(s)
  /\ EndCall(t, r)

\* FindReturn as it would be if an upsert whose query failed gave up and
\* returned None
FindReturnAbandon(t, rv, s, r) ==
  /\ ret' = [ret EXCEPT ![t] = rv]
  /\ IF rv = Raised
       THEN UpsertReturn(t, Exc, s, r) /\ UNCHANGED found
       ELSE IF rv.status # 200
         THEN UpsertReturn(t, NoPage, s, r) /\ UNCHANGED found
         ELSE /\ found' = [found EXCEPT ![t] = FoundPage(rv)]
              /\ pc' = [pc EXCEPT ![t] = "write"]
              /\ BeginCall(t, WriteRequest(Database(stage), FoundPage(rv),
                                           UpsertProperties(stage, batch[t])), s)
              /\ UNCHANGED result

\* find_page_by_hevy_id got rv from the gateway: the upsert goes on to
\* create_or_update_page, whose gateway call begins (lines 292-301); what
\* the gateway returned to find_page_by_hevy_id, or that it raised, stays
\* on record
FindReturn(t, rv, s, r) ==
  /\ ret' = [ret EXCEPT ![t] = rv]
  /\ IF rv = Raised
       THEN UpsertReturn(t, Exc, s, r) /\ UNCHANGED found
       ELSE /\ found' = [found EXCEPT ![t] = FoundPage(rv)]
            /\ pc' = [pc EXCEPT ![t] = "write"]
            /\ BeginCall(t, WriteRequest(Database(stage), FoundPage(rv),
                                         UpsertProperties(stage, batch[t])), s)
            /\ UNCHANGED result

\* WriteReturn as it would be if an update that failed fell back to the
\* creation of a page
WriteReturnFallsBack(t, rv, s, r) ==
  IF rv # Raised /\ WrittenPage(rv) = NoPage /\ req[t].method = "PATCH"
    THEN /\ BeginCall(t, WriteRequest(Database(stage), NoPage,
                                      UpsertProperties(stage, batch[t])), s)
         /\ UNCHANGED <<pc, ret, found, result>>
    ELSE /\ UNCHANGED <<ret, found>>
         /\ UpsertReturn(t, IF rv = Raised THEN Exc ELSE WrittenPage(rv), s, r)

\* create_or_update_page got rv from the gateway: the upsert returns
WriteReturn(t, rv, s, r) ==
  /\ UNCHANGED <<ret, found>>
  /\ UpsertReturn(t, IF rv = Raised THEN Exc ELSE WrittenPage(rv), s, r)

\* The call of task t ends with result rv after the response r; s is the
\* semaphore state after the permit was given back.  The caller goes on
\* without suspending.
Return(t, rv, s, r) ==
  CASE pc[t] = "call" -> CallReturn(t, rv, s, r)
    [] pc[t] = "query" -> FindReturn(t, rv, s, r)
    [] pc[t] = "write" -> WriteReturn(t, rv, s, r)

\* the loop of attempts ended without a return (line 126)
RateLimitedResult == Result(429, NoneData, "Rate limited after max retries")

\* NextAttempt as it would be if the loop of attempts were inside
\* `async with semaphore`: the permit is kept for the next attempt
NextAttemptKeepsPermit(t, s) ==
  IF attempt[t] + 1 < NOTION_MAX_RETRIES
    THEN /\ attempt' = [attempt EXCEPT ![t] = @ + 1]
         /\ wait' = [wait EXCEPT ![t] = 0]
         /\ resp' = [resp EXCEPT ![t] = NoResponse]
         /\ SetSem([s EXCEPT !.gw[t] = "pacing", !.slept[t] = 0])
         /\ UNCHANGED <<pc, req, sent, ret, found, result>>
    ELSE Return(t, RateLimitedResult, Release(t, s), resp[t])

\* `continue`, or the end of the loop body: the permit is given back and
\* the next attempt begins, if there is one
NextAttempt(t, s) ==
  IF attempt[t] + 1 < NOTION_MAX_RETRIES
    THEN /\ attempt' = [attempt EXCEPT ![t] = @ + 1]
         /\ wait' = [wait EXCEPT ![t] = 0]
         /\ resp' = [resp EXCEPT ![t] = NoResponse]
         /\ SetSem(Acquire(t, Release(t, s)))
         /\ UNCHANGED <<pc, req, sent, ret, found, result>>
    ELSE Return(t, RateLimitedResult, Release(t, s), resp[t])

\* PacingSleep as it would be if the request were sent at once
PacingSleepSkipped(t, s) == s

\* `await asyncio.sleep(NOTION_REQUEST_DELAY)` inside `async with semaphore`
PacingSleep(t, s) == [s EXCEPT !.slept[t] = @ + NOTION_REQUEST_DELAY]

\* `await asyncio.sleep(NOTION_REQUEST_DELAY)` is over: the request is sent.
\* A method that is none of GET, POST, PATCH sends nothing and the loop
\* goes to its next attempt.
Send(t) ==
  /\ gw[t] = "pacing"
  /\ IF ValidMethod(req[t].method)
       THEN /\ SetSem([PacingSleep(t, SemState) EXCEPT !.gw[t] = "inflight"])
            /\ sent' = [sent EXCEPT ![t] = Append(@, req[t])]
            /\ issued' = Logged(issued, stage)
            /\ UNCHANGED <<pc, attempt, req, ret, resp, wait, found, result>>
       ELSE NextAttempt(t, PacingSleep(t, SemState)) /\ UNCHANGED issued
  /\ UNCHANGED <<destMode, budget, db, nextPage>>
  /\ UNCHANGED fanoutVars

\* the task sleeps before its next attempt, inside `async with semaphore`
Backoff(t, r, seconds) ==
  /\ gw' = [gw EXCEPT ![t] = "backoff"]
  /\ wait' = [wait EXCEPT ![t] = seconds]
  /\ resp' = [resp EXCEPT ![t] = r]
  /\ UNCHANGED <<sem_value, sem_waiters, slept, pc, attempt, req, sent, ret,
                 found, result>>

\* Handle as it would be if every status other than 200 were retried
HandleRetryAll(r, k, body) ==
  CASE r.kind = "http" /\ r.status = 200 ->
         [do |-> "return", rv |-> Result(200, body, None), seconds |-> 0]
    [] r.kind = "http" /\ r.status # 200 ->
         [do |-> "sleep", rv |-> NoResult, seconds |-> RetryDelay(r, k)]
    [] r.kind = "timeout" /\ k < NOTION_MAX_RETRIES - 1 ->
         [do |-> "sleep", rv |-> NoResult, seconds |-> TimeoutDelay(k)]
    [] r.kind = "timeout" /\ ~(k < NOTION_MAX_RETRIES - 1) ->
         [do |-> "return", rv |-> Result(0, NoneData, "Request timeout after retries"),
          seconds |-> 0]
    [] r.kind = "error" ->
         [do |-> "raise", rv |-> Raised, seconds |-> 0]

\* What one pass of the loop body does with the response r at attempt k
\* (lines 79-89 and 119-124); body is the JSON of a 200 response.
\* "sleep": asyncio.sleep(seconds), then continue; "return": return rv;
\* "raise": the error leaves the call.
Handle(r, k, body) ==
  CASE r.kind = "http" /\ r.status = 200 ->
         [do |-> "return", rv |-> Result(200, body, None), seconds |-> 0]
    [] r.kind = "http" /\ r.status = 429 ->
         [do |-> "sleep", rv |-> NoResult, seconds |-> RetryDelay(r, k)]
    [] r.kind = "http" /\ r.status \notin {200, 429} ->
         [do |-> "return", rv |-> Result(r.status, NoneData, ErrorText(r.status)),
          seconds |-> 0]
    [] r.kind = "timeout" /\ k < NOTION_MAX_RETRIES - 1 ->
         [do |-> "sleep", rv |-> NoResult, seconds |-> TimeoutDelay(k)]
    [] r.kind = "timeout" /\ ~(k < NOTION_MAX_RETRIES - 1) ->
         [do |-> "return", rv |-> Result(0, NoneData, "Request timeout after retries"),
          seconds |-> 0]
    [] r.kind = "error" ->
         [do |-> "raise", rv |-> Raised, seconds |-> 0]

\* a query or a create that names no database is answered 400, whatever
\* the state of the destination
Addressable(request) ==
  ~(request.url \in {"query", "pages"} /\ request.json.database = None)

\* the response r to the request in flight arrives (lines 76-124); a 200
\* response is the destination having carried out the request
Respond(t, r) ==
  /\ gw[t] = "inflight"
  /\ IF Addressable(req[t]) THEN r \in Responses(destMode)
                             ELSE r = HttpResponse(400, NoHeader)
  /\ \E o \in IF r.status = 200 THEN ServerOutcomes(req[t], db, nextPage)
                ELSE {[db |-> db, nextPage |-> nextPage, body |-> NoneData]} :
       LET h == Handle(r, attempt[t], o.body)
       IN  /\ db' = o.db
           /\ nextPage' = o.nextPage
           /\ IF h.do = "sleep"
                THEN Backoff(t, r, h.seconds)
                ELSE Return(t, h.rv, Release(t, SemState), r)
  /\ IF r.status = 200 \/ ~Addressable(req[t])
       THEN budget' = budget
       ELSE /\ budget.limited => budget.left > 0
            /\ budget' = IF budget.limited THEN Budget(budget.left - 1) ELSE budget
  /\ UNCHANGED <<destMode, issued>>
  /\ UNCHANGED fanoutVars

\* the backoff sleep is over: `continue`
Continue(t) ==
  /\ gw[t] = "backoff"
  /\ NextAttempt(t, SemState)
  /\ UNCHANGED <<destMode, budget, db, nextPage, issued>>
  /\ UNCHANGED fanoutVars

----------------------------------------------------------------------------
(* sync_exercise_templates: the batch fan-out                              *)

\* GatherDone as it would be without return_exceptions=True: the first
\* error of a task ends the gather
GatherFirstException ==
  \/ \A t \in DOMAIN batch : pc[t] = "done"
  \/ \E t \in DOMAIN batch : result[t] = Exc

\* asyncio.gather(*tasks, return_exceptions=True) returns when every task
\* has returned or raised
GatherDone == \A t \in DOMAIN batch : pc[t] = "done"

RECURSIVE CollectNone(_, _, _, _)
\* Collect as it would be if a None result were counted as well
CollectNone(templates, results, i, acc) ==
  IF i > Len(results) THEN acc
  ELSE IF results[i] = Exc THEN CollectNone(templates, results, i + 1, acc)
  ELSE CollectNone(templates, results, i + 1,
                   [count |-> acc.count + 1,
                    id_mapping |-> DictSet(acc.id_mapping, HevyId(templates[i]), results[i])])

RECURSIVE Collect(_, _, _, _)
\* the loop over the results (lines 323-332), from index i on
Collect(templates, results, i, acc) ==
  IF i > Len(results) THEN acc
  ELSE IF results[i] = Exc THEN Collect(templates, results, i + 1, acc)
  ELSE IF results[i] # NoPage
    THEN Collect(templates, results, i + 1,
                 [count |-> acc.count + 1,
                  id_mapping |-> DictSet(acc.id_mapping, HevyId(templates[i]), results[i])])
  ELSE Collect(templates, results, i + 1, acc)

\* sync_exercise_templates returns (count, id_mapping)
Gather ==
  /\ phase = "gather"
  /\ GatherDone
  /\ LET out == Collect(batch, [i \in DOMAIN batch |-> result[i]], 1,
                        [count |-> 0, id_mapping |-> {}])
     IN  /\ count' = out.count
         /\ id_mapping' = out.id_mapping
  /\ phase' = "returned"
  /\ UNCHANGED <<sem_value, sem_waiters, pc, gw, attempt, req, sent, resp,
                 wait, slept, ret, destMode, budget, db, nextPage, batch,
                 found, result, round, prev, stage, run, issued, loops,
                 built, legacy, limiter>>

----------------------------------------------------------------------------
(* Initial states.                                                         *)

RECURSIVE AcquireAll(_, _)
\* the tasks of ts enter `async with semaphore` in order
AcquireAll(ts, s) ==
  IF ts = <<>> THEN s ELSE AcquireAll(Tail(ts), Acquire(Head(ts), s))

TaskSeq(n) == [i \in 1..n |-> i]

\* asyncio.Semaphore(NOTION_SEMAPHORE_LIMIT)
FreshSem ==
  [value |-> NOTION_SEMAPHORE_LIMIT, waiters |-> <<>>,
   gw |-> [t \in Tasks |-> "idle"], slept |-> [t \in Tasks |-> 0]]

\* n tasks have been started, task t with the request requests[t]
Started(n, where, requests) ==
  /\ pc = [t \in Tasks |-> IF t <= n THEN where ELSE "idle"]
  /\ req = [t \in Tasks |-> IF t <= n THEN requests[t] ELSE NoRequest]
  /\ attempt = [t \in Tasks |-> 0]
  /\ sent = [t \in Tasks |-> <<>>]
  /\ resp = [t \in Tasks |-> NoResponse]
  /\ wait = [t \in Tasks |-> 0]
  /\ ret = [t \in Tasks |-> NoResult]
  /\ found = [t \in Tasks |-> NoPage]
  /\ result = [t \in Tasks |-> Pending]
  /\ LET s == AcquireAll(TaskSeq(n), FreshSem)
     IN  /\ sem_value = s.value
         /\ sem_waiters = s.waiters
         /\ gw = s.gw
         /\ slept = s.slept

NoPrev == [result |-> Pending, found |-> NoPage]

\* no workout at hand
NoWorkout == [id |-> None]
\* the webhook's workout has no routine
NoRoutine == [id |-> None]

\* the locals of an orchestrator that has not done anything, with every
\* database configured; sync_exercise_templates called on its own has
\* only the templates database
NoRun ==
  [mode |-> "none",
   hevy_api_key |-> "key", notion_api_key |-> "key",
   templates_db_id |-> TEMPLATES_DB, routines_db_id |-> ROUTINES_DB,
   workouts_db_id |-> WORKOUTS_DB, sets_db_id |-> SETS_DB,
   template_count |-> 0, routine_count |-> 0, workout_count |-> 0, set_count |-> 0,
   template_mapping |-> {}, routine_mapping |-> {},
   routine_page_id |-> NoPage, workout_page_id |-> NoPage,
   workout |-> NoWorkout, routine |-> NoRoutine, left |-> <<>>,
   outcome |-> "running", error |-> "none"]

----------------------------------------------------------------------------
(* The orchestrators: perform_full_sync with sync_routines and             *)
(* sync_workouts_and_sets, and process_workout_webhook.  The source        *)
(* collections are inputs: what a fetch returns is chosen when the         *)
(* orchestrator reads it.                                                  *)

\* the set_data of a set; the sets of the model carry the same fields
SetData == [reps |-> 5]

Exercise(template_id, n) ==
  [exercise_template_id |-> template_id, sets |-> [i \in 1..n |-> SetData]]
\* an exercise without exercise_template_id
ExerciseNoTemplate(n) == [sets |-> [i \in 1..n |-> SetData]]

\* The workouts of the source.  Their ids are such that one is the other
\* followed by "-0"; they come with and without routine_id, flat and
\* wrapped, with sets in one exercise and in two, with and without
\* exercise_template_id.
SourceWorkouts ==
  <<[id |-> "w", routine_id |-> "r", exercises |-> <<Exercise("a", 2)>>],
    [id |-> "w-0",
     exercises |-> <<Exercise("a", 1), ExerciseNoTemplate(1)>>],
    [workout |-> [id |-> "w", routine_id |-> "q",
                  exercises |-> <<Exercise("b", 1)>>]]>>

\* the templates and the routines of the source; a fetch of a collection
\* returns the first ones of it
SourceTemplates ==
  <<[id |-> "a"], [exercise_template |-> [id |-> "b"]], [title |-> "Squat"]>>
SourceRoutines == <<[id |-> "r"], [routine |-> [id |-> "q"]]>>

\* the lists a fetch of the collection may return: at most n entities
Fetched(collection, n) ==
  {SubSeq(collection, 1, k) : k \in 0..Min(n, Len(collection))}

\* dict.get(key) on a dict given as a set of [key, page] items
MapGet(d, key) ==
  IF \E e \in d : e.key = key
    THEN (CHOOSE e \in d : e.key = key).page ELSE NoPage

\* routine_mapping.get(routine_id) if routine_id else None (lines 769-771)
RoutinePageId(workout, routine_mapping) ==
  LET routine_id == Get(WorkoutData(workout), "routine_id", None)
  IN  IF routine_id # None /\ routine_id # ""
        THEN MapGet(routine_mapping, routine_id) ELSE NoPage

\* the arguments of the upsert_set calls of exercise i (lines 696-720);
\* the indexes handed to upsert_set are 0-based
ExerciseSets(workout_id, workout_page_id, exercises, i, mapping) ==
  LET exercise == exercises[i]
      exercise_template_id == Get(exercise, "exercise_template_id", "")
      sets == Get(exercise, "sets", <<>>)
  IN  [j \in 1..Len(sets) |->
         [workout_id |-> workout_id, workout_page_id |-> workout_page_id,
          exercise_index |-> i - 1, set_index |-> j - 1,
          exercise_template_id |-> exercise_template_id,
          exercise_template_page_id |-> MapGet(mapping, exercise_template_id)]]

RECURSIVE SetTasks(_, _, _, _, _)
\* the tasks sync_workout_sets builds, from exercise i on (lines 695-720)
SetTasks(workout_id, workout_page_id, exercises, i, mapping) ==
  IF i > Len(exercises) THEN <<>>
  ELSE ExerciseSets(workout_id, workout_page_id, exercises, i, mapping)
         \o SetTasks(workout_id, workout_page_id, exercises, i + 1, mapping)

RECURSIVE CollectRoutines(_, _, _, _)
\* the loop over the results of sync_routines (lines 437-446)
CollectRoutines(routines, results, i, acc) ==
  IF i > Len(results) THEN acc
  ELSE IF results[i] = Exc THEN CollectRoutines(routines, results, i + 1, acc)
  ELSE IF results[i] # NoPage
    THEN CollectRoutines(routines, results, i + 1,
           [count |-> acc.count + 1,
            id_mapping |-> DictSet(acc.id_mapping,
                                   Get(RoutineData(routines[i]), "id", ""),
                                   results[i])])
  ELSE CollectRoutines(routines, results, i + 1, acc)

\* the count sync_workout_sets returns (lines 727-734)
CountSets(results) ==
  Cardinality({i \in DOMAIN results : results[i] # Exc /\ results[i] # NoPage})

\* no task is running: the locals of the tasks are gone
NoTasks ==
  /\ pc' = [t \in Tasks |-> "idle"]
  /\ req' = [t \in Tasks |-> NoRequest]
  /\ attempt' = [t \in Tasks |-> 0]
  /\ sent' = [t \in Tasks |-> <<>>]
  /\ resp' = [t \in Tasks |-> NoResponse]
  /\ wait' = [t \in Tasks |-> 0]
  /\ ret' = [t \in Tasks |-> NoResult]
  /\ found' = [t \in Tasks |-> NoPage]
  /\ result' = [t \in Tasks |-> Pending]

\* The upserts of the kind are started, task t with the arguments
\* args[t]; each runs up to its first suspension point.  r is the new
\* value of the locals of the orchestrator.
StartUpserts(kind, args, r) ==
  /\ run' = r
  /\ stage' = kind
  /\ batch' = args
  /\ pc' = [t \in Tasks |-> IF t <= Len(args) THEN "query" ELSE "idle"]
  /\ req' = [t \in Tasks |->
               IF t <= Len(args)
                 THEN QueryRequest(Database(kind), UpsertProperties(kind, args[t]).hevy)
                 ELSE NoRequest]
  /\ attempt' = [t \in Tasks |-> 0]
  /\ sent' = [t \in Tasks |-> <<>>]
  /\ resp' = [t \in Tasks |-> NoResponse]
  /\ wait' = [t \in Tasks |-> 0]
  /\ ret' = [t \in Tasks |-> NoResult]
  /\ found' = [t \in Tasks |-> NoPage]
  /\ result' = [t \in Tasks |-> Pending]
  /\ SetSem(AcquireAll(TaskSeq(Len(args)), SemState))

\* the orchestrator goes on to the position st, where it awaits a fetch
\* or has ended
Goto(st, r) ==
  /\ run' = r
  /\ stage' = st
  /\ batch' = <<>>
  /\ NoTasks
  /\ UNCHANGED <<sem_value, sem_waiters, gw, slept>>

\* the run returns its result
Done(r) == Goto("done", [r EXCEPT !.outcome = "success"])

\* an error leaves the run
Fail(r) == Goto("failed", [r EXCEPT !.outcome = "error"])

----------------------------------------------------------------------------
(* The specifications.                                                     *)

\* SpecGateway: NumCallers tasks of one event loop, each making one call of
\* notion_request_with_retry
InitGateway ==
  /\ destMode \in {"any", "rate_limited", "timeout"}
  /\ budget = Unlimited
  /\ db = {}
  /\ nextPage = 1
  /\ batch = <<>>
  /\ phase = "none"
  /\ count = 0
  /\ id_mapping = {}
  /\ round = 0
  /\ prev = NoPrev
  /\ stage = "none"
  /\ run = NoRun
  /\ issued = <<>>
  /\ loops = NoLoops
  /\ legacy = NoLegacy
  /\ limiter = NoLimiter
  /\ built = NoBuilt
  /\ Started(NumCallers, "call",
             [t \in Tasks |-> Request(Methods[1 + (t % Len(Methods))], "any",
                                      NoPage, Json(None, None))])

NextGateway ==
  \/ \E t \in Tasks : Send(t)
  \/ \E t \in Tasks : \E r \in AllResponses : Respond(t, r)
  \/ \E t \in Tasks : Continue(t)

SpecGateway == InitGateway /\ [][NextGateway]_vars

\* a method notion_request_with_retry has no branch for (lines 77-117)
OTHER_METHOD == "DELETE"

\* SpecMethods: as SpecGateway, the call of the first task being made with
\* a method that is none of GET, POST, PATCH
InitMethods ==
  /\ destMode \in {"any", "rate_limited", "timeout"}
  /\ budget = Unlimited
  /\ db = {}
  /\ nextPage = 1
  /\ batch = <<>>
  /\ phase = "none"
  /\ count = 0
  /\ id_mapping = {}
  /\ round = 0
  /\ prev = NoPrev
  /\ stage = "none"
  /\ run = NoRun
  /\ issued = <<>>
  /\ loops = NoLoops
  /\ legacy = NoLegacy
  /\ limiter = NoLimiter
  /\ built = NoBuilt
  /\ Started(NumCallers, "call",
             [t \in Tasks |->
                Request(IF t = 1 THEN OTHER_METHOD
                                 ELSE Methods[1 + (t % Len(Methods))],
                        "any", NoPage, Json(None, None))])

SpecMethods == InitMethods /\ [][NextGateway]_vars

\* the batches of at most n entities
Batches(n) == UNION {[1..k -> EntityPool] : k \in 1..n}

\* Spec: sync_exercise_templates has started one upsert per entity of the
\* batch; each task ran up to its first suspension point
Init ==
  /\ destMode = "any"
  /\ budget = Budget(MaxFaults)
  /\ db = {}
  /\ nextPage = 1
  /\ batch \in Batches(MaxBatch)
  /\ phase = "gather"
  /\ count = 0
  /\ id_mapping = {}
  /\ round = 0
  /\ prev = NoPrev
  /\ stage = "templates"
  /\ run = NoRun
  /\ issued = <<>>
  /\ loops = NoLoops
  /\ legacy = NoLegacy
  /\ limiter = NoLimiter
  /\ built = NoBuilt
  /\ Started(Len(batch), "query",
             [t \in Tasks |-> IF t <= Len(batch)
                                THEN QueryRequest(TEMPLATES_DB, HevyId(batch[t]))
                                ELSE NoRequest])

Next ==
  \/ \E t \in Tasks : Send(t)
  \/ \E t \in Tasks : \E r \in AllResponses : Respond(t, r)
  \/ \E t \in Tasks : Continue(t)
  \/ Gather

Spec == Init /\ [][Next]_vars

\* SpecLive: the fan-out of Spec with more upserts than permits, under a
\* destination that answers every request 200, or every request 429, or
\* lets every request time out
InitLive ==
  /\ destMode \in {"ok", "rate_limited", "timeout"}
  /\ budget = Unlimited
  /\ db = {}
  /\ nextPage = 1
  /\ batch = [t \in 1..NumCallers |-> [id |-> "a"]]
  /\ phase = "gather"
  /\ count = 0
  /\ id_mapping = {}
  /\ round = 0
  /\ prev = NoPrev
  /\ stage = "templates"
  /\ run = NoRun
  /\ issued = <<>>
  /\ loops = NoLoops
  /\ legacy = NoLegacy
  /\ limiter = NoLimiter
  /\ built = NoBuilt
  /\ Started(Len(batch), "query",
             [t \in Tasks |-> IF t <= Len(batch)
                                THEN QueryRequest(TEMPLATES_DB, HevyId(batch[t]))
                                ELSE NoRequest])

\* every sleep ends, every request in flight is answered or times out, and
\* the gather returns once its tasks have ended
Fairness ==
  /\ \A t \in Tasks : WF_vars(Send(t))
  /\ \A t \in Tasks : WF_vars(\E r \in AllResponses : Respond(t, r))
  /\ \A t \in Tasks : WF_vars(Continue(t))
  /\ WF_vars(Gather)

SpecLive == InitLive /\ [][Next]_vars /\ Fairness

\* SpecSeq: one caller upserts one entity MaxRounds times in sequence
InitSeq ==
  /\ destMode \in {"ok", "any"}
  /\ budget = Unlimited
  /\ db = {}
  /\ nextPage = 1
  /\ batch \in Batches(1)
  /\ phase = "none"
  /\ count = 0
  /\ id_mapping = {}
  /\ round = 1
  /\ prev = NoPrev
  /\ stage = "templates"
  /\ run = NoRun
  /\ issued = <<>>
  /\ loops = NoLoops
  /\ legacy = NoLegacy
  /\ limiter = NoLimiter
  /\ built = NoBuilt
  /\ Started(1, "query",
             [t \in Tasks |-> IF t = 1 THEN QueryRequest(TEMPLATES_DB, HevyId(batch[1]))
                                       ELSE NoRequest])

\* the caller got the outcome of an upsert and upserts the entity again
Again ==
  /\ pc[1] = "done"
  /\ round < MaxRounds
  /\ round' = round + 1
  /\ prev' = [result |-> result[1], found |-> found[1]]
  /\ pc' = [pc EXCEPT ![1] = "query"]
  /\ ret' = [ret EXCEPT ![1] = NoResult]
  /\ found' = [found EXCEPT ![1] = NoPage]
  /\ result' = [result EXCEPT ![1] = Pending]
  /\ BeginCall(1, QueryRequest(TEMPLATES_DB, HevyId(batch[1])), SemState)
  /\ UNCHANGED <<destMode, budget, db, nextPage, batch, phase, count,
                 id_mapping, stage, run, issued, loops, built, legacy, limiter>>

NextSeq ==
  \/ \E t \in Tasks : Send(t)
  \/ \E t \in Tasks : \E r \in AllResponses : Respond(t, r)
  \/ \E t \in Tasks : Continue(t)
  \/ Again

SpecSeq == InitSeq /\ [][NextSeq]_vars

\* FullSyncSteps as it would be if the routines were synced first
FullSyncStepsRoutinesFirst == <<"routines", "templates", "workouts">>

\* the steps of perform_full_sync, in the order of its code
\* (full_sync.py 147-186)
FullSyncSteps == <<"templates", "routines", "workouts">>

\* WebhookSteps as it would be if the templates were synced first
WebhookStepsTemplatesFirst == <<"templates", "routine", "workout">>

\* the steps of process_workout_webhook, in the order of its code
\* (hevy_webhook.py 192-216)
WebhookSteps == <<"routine", "templates", "workout">>

Steps(mode) == IF mode = "full" THEN FullSyncSteps ELSE WebhookSteps

\* the condition under which the run does the step
Configured(step, r) ==
  CASE step = "templates" -> r.templates_db_id # None
    [] step = "routines" -> r.routines_db_id # None
    [] step = "routine" -> r.routine # NoRoutine /\ r.routines_db_id # None
    [] OTHER -> TRUE

\* the run enters the step: it awaits the fetch of the step, or the upsert
\* of the entity it has fetched already
Enter(step, r) ==
  CASE step = "templates" -> Goto("fetch_templates", r)
    [] step = "routines" -> Goto("fetch_routines", r)
    [] step = "workouts" -> Goto("fetch_workouts", r)
    [] step = "routine" -> StartUpserts("routines", <<r.routine>>, r)
    [] step = "workout" ->
         StartUpserts("workout",
                      <<[workout |-> r.workout, routine_page_id |-> r.routine_page_id]>>, r)

\* the run goes on after the i-th of its steps (after none of them when
\* i = 0): it enters the next step it is configured for
After(i, r) ==
  LET steps == Steps(r.mode)
      j == CHOOSE j \in (i + 1)..Len(steps) :
             /\ Configured(steps[j], r)
             /\ \A k \in (i + 1)..(j - 1) : ~Configured(steps[k], r)
  IN  Enter(steps[j], r)

\* the place of the step among the steps of the run
StepIndex(step, r) ==
  CHOOSE i \in DOMAIN Steps(r.mode) : Steps(r.mode)[i] = step

\* the run goes on once the templates are dealt with
AfterTemplates(r) == After(StepIndex("templates", r), r)

\* NextWorkout as it would be if the loop rebuilt the mappings
NextWorkoutDropsMappings(r) ==
  IF r.left # <<>>
    THEN LET workout == Head(r.left)
         IN  StartUpserts("workout",
                          <<[workout |-> workout,
                             routine_page_id |-> RoutinePageId(workout, r.routine_mapping)]>>,
                          [r EXCEPT !.left = Tail(@), !.workout = workout,
                                    !.template_mapping = {}, !.routine_mapping = {}])
    ELSE Done(r)

\* NextWorkout as it would be if the loop needed a routine mapping
NextWorkoutNeedsMapping(r) ==
  IF r.left # <<>> /\ r.routine_mapping # {}
    THEN LET workout == Head(r.left)
         IN  StartUpserts("workout",
                          <<[workout |-> workout,
                             routine_page_id |-> RoutinePageId(workout, r.routine_mapping)]>>,
                          [r EXCEPT !.left = Tail(@), !.workout = workout])
    ELSE Done(r)

\* sync_workouts_and_sets goes to the next workout of its loop: the
\* workout is read and upsert_workout is awaited (lines 768-776); r.left
\* are the workouts not yet read
NextWorkout(r) ==
  IF r.left # <<>>
    THEN LET workout == Head(r.left)
         IN  StartUpserts("workout",
                          <<[workout |-> workout,
                             routine_page_id |-> RoutinePageId(workout, r.routine_mapping)]>>,
                          [r EXCEPT !.left = Tail(@), !.workout = workout])
    ELSE Done(r)

\* how the await of a fetch from the source ends: with what was fetched,
\* or with an error
FetchOutcomes == {"returned", "raised"}

\* FetchFailed as it would be if the run noted the error and returned
\* its counts
FetchFailedIgnored(r) == Done([r EXCEPT !.error = "fetch"])

\* the fetch of a source collection, or of the one workout, failed: the
\* error leaves the run, which has no handler for it, and the handler of
\* the entry point answers with the error (full_sync.py 69-79,
\* hevy_webhook.py 183-184 and 119-124)
FetchFailed(r) == Fail([r EXCEPT !.error = "fetch"])

orchVars == <<destMode, budget, db, nextPage, phase, count, id_mapping,
              round, prev, issued, loops, built, legacy, limiter>>

\* the fetch of the templates returned (full_sync.py 150-156,
\* hevy_webhook.py 201-210)
FetchTemplates ==
  /\ stage = "fetch_templates"
  /\ \/ \E templates \in Fetched(SourceTemplates, MaxBatch) :
          IF templates = <<>>
            THEN AfterTemplates(run)
            ELSE StartUpserts("templates", templates, run)
     \/ "raised" \in FetchOutcomes /\ FetchFailed(run)
  /\ UNCHANGED orchVars

\* sync_exercise_templates returned its count and mapping
TemplatesReturn ==
  /\ stage = "templates"
  /\ GatherDone
  /\ LET out == Collect(batch, [i \in DOMAIN batch |-> result[i]], 1,
                        [count |-> 0, id_mapping |-> {}])
     IN  AfterTemplates([run EXCEPT !.template_count = out.count,
                                    !.template_mapping = out.id_mapping])
  /\ UNCHANGED orchVars

\* the fetch of the routines returned (full_sync.py 162-168)
FetchRoutines ==
  /\ stage = "fetch_routines"
  /\ \/ \E routines \in Fetched(SourceRoutines, MaxBatch) :
          IF routines = <<>>
            THEN After(StepIndex("routines", run), run)
            ELSE StartUpserts("routines", routines, run)
     \/ "raised" \in FetchOutcomes /\ FetchFailed(run)
  /\ UNCHANGED orchVars

\* sync_routines returned its count and mapping (full sync), or the
\* upsert_routine the webhook run awaited returned or raised
\* (hevy_webhook.py 195-200)
RoutinesReturn ==
  /\ stage = "routines"
  /\ GatherDone
  /\ IF run.mode = "full"
       THEN LET out == CollectRoutines(batch, [i \in DOMAIN batch |-> result[i]], 1,
                                       [count |-> 0, id_mapping |-> {}])
            IN  After(StepIndex("routines", run),
                      [run EXCEPT !.routine_count = out.count,
                                  !.routine_mapping = out.id_mapping])
       ELSE IF result[1] = Exc
              THEN Fail([run EXCEPT !.error = "upsert"])
              ELSE After(StepIndex("routine", run),
                         [run EXCEPT !.routine_page_id = result[1]])
  /\ UNCHANGED orchVars

\* the fetch of the workouts returned: sync_workouts_and_sets begins, if
\* there is a workout (full_sync.py 173-185)
FetchWorkouts ==
  /\ stage = "fetch_workouts"
  /\ \/ \E workouts \in Fetched(SourceWorkouts, MaxWorkouts) :
          NextWorkout([run EXCEPT !.left = workouts])
     \/ "raised" \in FetchOutcomes /\ FetchFailed(run)
  /\ UNCHANGED orchVars

\* the fetch of the workout and its routine returned: the webhook run
\* upserts the routine, if it has one; without workout_data it raises
\* (hevy_webhook.py 181-200)
FetchWorkout ==
  /\ stage = "fetch_workout"
  /\ \/ \E workout \in {SourceWorkouts[i] : i \in DOMAIN SourceWorkouts} :
        \E routine_data \in {SourceRoutines[i] : i \in DOMAIN SourceRoutines} \cup {NoRoutine} :
          After(0, [run EXCEPT !.workout = workout, !.routine = routine_data])
     \/ "raised" \in FetchOutcomes /\ FetchFailed(run)
  /\ UNCHANGED orchVars

\* WorkoutReturn as it would be if the webhook run went on after an
\* upsert_workout that returned none
WorkoutReturnNoAbort ==
  /\ stage = "workout"
  /\ GatherDone
  /\ LET workout_page_id == result[1]
         workout_data == WorkoutData(run.workout)
         sets == SetTasks(Get(workout_data, "id", ""), workout_page_id,
                          Get(workout_data, "exercises", <<>>), 1,
                          run.template_mapping)
         r == [run EXCEPT !.workout_count = @ + 1,
                          !.workout_page_id = workout_page_id]
     IN  IF workout_page_id = Exc THEN Fail([run EXCEPT !.error = "upsert"])
         ELSE IF run.mode = "full"
           THEN IF workout_page_id = NoPage THEN NextWorkout(run)
                ELSE IF sets = <<>> THEN NextWorkout(r)
                ELSE StartUpserts("sets", sets, r)
           ELSE IF r.sets_db_id # None /\ sets # <<>>
                  THEN StartUpserts("sets", sets, r)
                  ELSE Done(r)
  /\ UNCHANGED orchVars

\* upsert_workout returned or raised (notion_handler.py 774-792,
\* hevy_webhook.py 214-232)
WorkoutReturn ==
  /\ stage = "workout"
  /\ GatherDone
  /\ LET workout_page_id == result[1]
         workout_data == WorkoutData(run.workout)
         sets == SetTasks(Get(workout_data, "id", ""), workout_page_id,
                          Get(workout_data, "exercises", <<>>), 1,
                          run.template_mapping)
         r == [run EXCEPT !.workout_count = @ + 1,
                          !.workout_page_id = workout_page_id]
     IN  IF workout_page_id = Exc THEN Fail([run EXCEPT !.error = "upsert"])
         ELSE IF run.mode = "full"
           THEN IF workout_page_id = NoPage THEN NextWorkout(run)
                ELSE IF sets = <<>> THEN NextWorkout(r)
                ELSE StartUpserts("sets", sets, r)
           ELSE IF workout_page_id = NoPage THEN Fail([run EXCEPT !.error = "no_page"])
                ELSE IF r.sets_db_id # None /\ sets # <<>>
                  THEN StartUpserts("sets", sets, r)
                  ELSE Done(r)
  /\ UNCHANGED orchVars

\* sync_workout_sets returned its count
SetsReturn ==
  /\ stage = "sets"
  /\ GatherDone
  /\ LET r == [run EXCEPT !.set_count = @ + CountSets([i \in DOMAIN batch |-> result[i]])]
     IN  IF run.mode = "full" THEN NextWorkout(r) ELSE Done(r)
  /\ UNCHANGED orchVars

\* the database ids a run may be configured with: the workouts database
\* is required, the others are optional
Configs ==
  {c \in [templates_db_id : {TEMPLATES_DB, None}, routines_db_id : {ROUTINES_DB, None},
          sets_db_id : {SETS_DB, None}] :
     Cardinality({k \in DOMAIN c : c[k] = None}) <= 1}

\* what the environment may hold for a required variable
EnvValues == {None, "", "key"}

\* `not x` of an environment variable
Missing(x) == x = None \/ x = ""

\* RequiredConfig as it would be without the check of the workouts database
RequiredConfigKeysOnly(r) ==
  ~Missing(r.hevy_api_key) /\ ~Missing(r.notion_api_key)

\* the handlers' check of the required environment variables
\* (full_sync.py 34-56, hevy_webhook.py 92-104)
RequiredConfig(r) ==
  /\ ~Missing(r.hevy_api_key)
  /\ ~Missing(r.notion_api_key)
  /\ ~Missing(r.workouts_db_id)

\* full_sync_handler and hevy_workout_webhook: the error response for a
\* missing variable, or asyncio.run of the run
CheckConfig ==
  /\ stage = "handler"
  /\ IF RequiredConfig(run)
       THEN Goto(IF run.mode = "webhook" THEN "fetch_workout" ELSE "start", run)
       ELSE Goto("rejected", [run EXCEPT !.outcome = "config_error"])
  /\ UNCHANGED orchVars

\* SpecRun: the handler of a full sync or of a webhook run is entered, the
\* databases empty
InitRun ==
  /\ destMode = "flaky"
  /\ budget = Budget(RunFaults)
  /\ db = {}
  /\ nextPage = 1
  /\ batch = <<>>
  /\ phase = "none"
  /\ count = 0
  /\ id_mapping = {}
  /\ round = 0
  /\ prev = NoPrev
  /\ issued = <<>>
  /\ loops = NoLoops
  /\ legacy = NoLegacy
  /\ limiter = NoLimiter
  /\ built = NoBuilt
  /\ \E mode \in {"full", "webhook"} : \E c \in Configs :
     \E hevy_api_key \in EnvValues : \E notion_api_key \in EnvValues :
     \E workouts_db_id \in {None, "", WORKOUTS_DB} :
       run = [NoRun EXCEPT !.mode = mode,
                           !.hevy_api_key = hevy_api_key,
                           !.notion_api_key = notion_api_key,
                           !.workouts_db_id = workouts_db_id,
                           !.templates_db_id = c.templates_db_id,
                           !.routines_db_id = c.routines_db_id,
                           !.sets_db_id = c.sets_db_id]
  /\ stage = "handler"
  /\ Started(0, "query", [t \in Tasks |-> NoRequest])

\* perform_full_sync begins: it enters the first step it is configured for
FullSyncStart ==
  /\ stage = "start"
  /\ After(0, run)
  /\ UNCHANGED orchVars

NextRun ==
  \/ \E t \in Tasks : Send(t)
  \/ \E t \in Tasks : \E r \in AllResponses : Respond(t, r)
  \/ \E t \in Tasks : Continue(t)
  \/ CheckConfig
  \/ FullSyncStart
  \/ FetchTemplates
  \/ TemplatesReturn
  \/ FetchRoutines
  \/ RoutinesReturn
  \/ FetchWorkouts
  \/ FetchWorkout
  \/ WorkoutReturn
  \/ SetsReturn

SpecRun == InitRun /\ [][NextRun]_vars

----------------------------------------------------------------------------
(* get_notion_semaphore over a sequence of invocations, each under the     *)
(* event loop of its asyncio.run.  A loop is known by its serial number;   *)
(* id(loop) is its address, which is unique among the objects alive: a     *)
(* closed loop keeps its address for as long as something refers to it,    *)
(* as a semaphore does that is bound to it (asyncio binds a semaphore to    *)
(* the running loop when it is created or when a task first has to wait    *)
(* on it, depending on the version of the library).  A semaphore is the    *)
(* record [created_in, bound_to] of two serial numbers (0: not bound).     *)

\* the gateway, the fan-out and the orchestrators are not part of the
\* specification
NoSync ==
  /\ destMode = "ok"
  /\ budget = Unlimited
  /\ db = {}
  /\ nextPage = 1
  /\ batch = <<>>
  /\ phase = "none"
  /\ count = 0
  /\ id_mapping = {}
  /\ round = 0
  /\ prev = NoPrev
  /\ stage = "none"
  /\ run = NoRun
  /\ issued = <<>>
  /\ Started(0, "call", [t \in Tasks |-> NoRequest])

Addresses == 1..NumAddresses

\* the addresses of the loops that are closed but still referred to
Occupied(cache) == {e.loop_id : e \in {x \in cache : x.semaphore.bound_to # 0}}

\* the cache after get_notion_semaphore as it would be if the new entry
\* were added to the old ones
SemaphoreCacheKeepsOld(cache, loop_id, semaphore) ==
  IF loop_id \notin {e.loop_id : e \in cache}
    THEN cache \cup {[loop_id |-> loop_id, semaphore |-> semaphore]}
    ELSE cache

\* _semaphore_cache after get_notion_semaphore under the loop with the
\* id; semaphore is the one it creates if it has to (lines 28-31)
SemaphoreCache(cache, loop_id, semaphore) ==
  IF loop_id \notin {e.loop_id : e \in cache}
    THEN {[loop_id |-> loop_id, semaphore |-> semaphore]}
    ELSE cache

\* _semaphore_cache[loop_id]
CachedSemaphore(cache, loop_id) ==
  (CHOOSE e \in cache : e.loop_id = loop_id).semaphore

\* asyncio.run begins: a new loop, at an address that is free
\* (full_sync.py 60, hevy_webhook.py 108)
RunLoop ==
  /\ ~loops.running
  /\ loops.serial < MaxInvocations
  /\ \E a \in Addresses \ Occupied(loops.cache) :
       loops' = [loops EXCEPT !.serial = @ + 1, !.running = TRUE, !.address = a,
                              !.used = NoSemaphore, !.calls = 0]
  /\ UNCHANGED <<syncVars, built, legacy, limiter>>

\* a gateway call gets its semaphore (lines 23-32, 71-72) and enters it:
\* the semaphore is bound to the running loop when it is created (bind) or
\* when the task has to wait (waits), or stays as it is
GetSemaphore ==
  /\ loops.running
  /\ loops.calls < MaxCalls
  /\ \E bind \in BOOLEAN : \E waits \in BOOLEAN :
       LET created == [created_in |-> loops.serial,
                       bound_to |-> IF bind THEN loops.serial ELSE 0]
           cache == SemaphoreCache(loops.cache, loops.address, created)
           semaphore == CachedSemaphore(cache, loops.address)
           entered == IF waits /\ semaphore.bound_to = 0
                        THEN [semaphore EXCEPT !.bound_to = loops.serial]
                        ELSE semaphore
       IN  loops' = [loops EXCEPT
                       !.cache = {IF e.loop_id = loops.address
                                    THEN [e EXCEPT !.semaphore = entered] ELSE e :
                                  e \in cache},
                       !.used = entered,
                       !.calls = @ + 1]
  /\ UNCHANGED <<syncVars, built, legacy, limiter>>

\* asyncio.run returns: its loop is closed
CloseLoop ==
  /\ loops.running
  /\ loops' = [loops EXCEPT !.running = FALSE]
  /\ UNCHANGED <<syncVars, built, legacy, limiter>>

InitLoops ==
  /\ NoSync
  /\ loops = NoLoops
  /\ legacy = NoLegacy
  /\ limiter = NoLimiter
  /\ built = NoBuilt

NextLoops ==
  \/ RunLoop
  \/ GetSemaphore
  \/ CloseLoop

SpecLoops == InitLoops /\ [][NextLoops]_vars

----------------------------------------------------------------------------
(* The properties the upserts build from an entity of the source.  A JSON  *)
(* value is a record of its type and content; a text is the sequence of     *)
(* its characters; a number is given in hundredths, so that the source's    *)
(* decimals and the rounding of the weight are exact.  An entity is a       *)
(* function from the keys it has to their values.                           *)

Null == [type |-> "null", text |-> <<>>, number |-> 0, items |-> <<>>]
Str(s) == [type |-> "string", text |-> s, number |-> 0, items |-> <<>>]
Num(n) == [type |-> "number", text |-> <<>>, number |-> n, items |-> <<>>]
Bool(b) == [type |-> "boolean", text |-> <<>>, number |-> IF b THEN 1 ELSE 0,
            items |-> <<>>]
List(l) == [type |-> "list", text |-> <<>>, number |-> 0, items |-> l]
\* the mark of a key the entity does not have
NoKey == [type |-> "absent", text |-> <<>>, number |-> 0, items |-> <<>>]

\* the entity with the keys of r that have a value
Dict(r) == [k \in {k \in DOMAIN r : r[k] # NoKey} |-> r[k]]

\* the truth value of v in a condition "if v:"
Truthy(v) ==
  \/ v.type = "string" /\ v.text # <<>>
  \/ v.type = "number" /\ v.number # 0
  \/ v.type = "boolean" /\ v.number = 1
  \/ v.type = "list" /\ v.items # <<>>

LowerCase == <<"a", "b", "c", "d", "e", "f", "g", "h", "i", "j", "k", "l", "m",
               "n", "o", "p", "q", "r", "s", "t", "u", "v", "w", "x", "y", "z">>
UpperCase == <<"A", "B", "C", "D", "E", "F", "G", "H", "I", "J", "K", "L", "M",
               "N", "O", "P", "Q", "R", "S", "T", "U", "V", "W", "X", "Y", "Z">>

IsLetter(c) == \E i \in 1..Len(LowerCase) : c \in {LowerCase[i], UpperCase[i]}
ToUpper(c) ==
  IF \E i \in 1..Len(LowerCase) : LowerCase[i] = c
    THEN UpperCase[CHOOSE i \in 1..Len(LowerCase) : LowerCase[i] = c] ELSE c
ToLower(c) ==
  IF \E i \in 1..Len(UpperCase) : UpperCase[i] = c
    THEN LowerCase[CHOOSE i \in 1..Len(UpperCase) : UpperCase[i] = c] ELSE c

\* s.replace("_", " ").title() (lines 279, 282, 287)
Normalized(s) ==
  LET spaced == [i \in 1..Len(s) |-> IF s[i] = "_" THEN " " ELSE s[i]]
  IN  [i \in 1..Len(s) |->
         IF i = 1 \/ ~IsLetter(spaced[i - 1])
           THEN ToUpper(spaced[i]) ELSE ToLower(spaced[i])]

\* the length free text is cut to (lines 396, 513, 650)
NOTES_LIMIT == 2000

\* s[:2000]
Truncated(s) == SubSeq(s, 1, Min(Len(s), NOTES_LIMIT))

\* one hundredth is the unit of the numbers
Unit == 100

\* int(v), of a number that is not negative
IntOf(v) == Num((v.number \div Unit) * Unit)

\* float(v)
FloatOf(v) == Num(v.number)

\* 2.20462 pounds to the kilogram (line 630), as the fraction 110231/50000
LB_PER_KG == [num |-> 110231, den |-> 50000]

\* round(x, 2) of x = num/den hundredths: to the nearest hundredth, a tie
\* to the even one
Round2(num, den) ==
  LET q == num \div den
      r == num % den
  IN  IF 2 * r < den THEN q
      ELSE IF 2 * r > den THEN q + 1
      ELSE IF q % 2 = 0 THEN q ELSE q + 1

\* WeightLb as it would be if the pounds were cut to 2 decimals
WeightLbCut(weight_kg) ==
  Num((weight_kg.number * LB_PER_KG.num) \div LB_PER_KG.den)

\* round(float(weight_kg) * 2.20462, 2) (lines 630-631)
WeightLb(weight_kg) ==
  Num(Round2(FloatOf(weight_kg).number * LB_PER_KG.num, LB_PER_KG.den))

\* Optional as it would be if the key were written whatever the value
OptionalAlways(present, key, value) == {[key |-> key, value |-> value]}

\* if present: properties[key] = value
Optional(present, key, value) ==
  IF present THEN {[key |-> key, value |-> value]} ELSE {}

\* properties[key] = value
Always(key, value) == {[key |-> key, value |-> value]}

\* datetime.utcnow().isoformat()
Now == Str(<<"n", "o", "w">>)

UNKNOWN_EXERCISE ==
  Str(<<"U", "n", "k", "n", "o", "w", "n", " ", "E", "x", "e", "r", "c", "i",
        "s", "e">>)
UNNAMED_ROUTINE ==
  Str(<<"U", "n", "n", "a", "m", "e", "d", " ", "R", "o", "u", "t", "i", "n",
        "e">>)
WORKOUT_TITLE == Str(<<"W", "o", "r", "k", "o", "u", "t">>)
NORMAL_SET == Str(<<"n", "o", "r", "m", "a", "l">>)

\* the properties upsert_exercise_template builds, apart from the Hevy ID
\* (lines 252-289)
TemplateFields(template) ==
  LET template_data == TemplateData(template)
      title == Get(template_data, "title", UNKNOWN_EXERCISE)
      exercise_type == Get(template_data, "type", Str(<<>>))
      primary_muscle == Get(template_data, "primary_muscle_group", Str(<<>>))
      secondary_muscles == Get(template_data, "secondary_muscle_groups", List(<<>>))
      equipment == Get(template_data, "equipment_category", Str(<<>>))
      is_custom == Get(template_data, "is_custom", Bool(FALSE))
      formatted == [i \in 1..Len(SelectSeq(secondary_muscles.items,
                                            LAMBDA m : m # <<>>)) |->
                      Normalized(SelectSeq(secondary_muscles.items,
                                           LAMBDA m : m # <<>>)[i])]
  IN  Always("Name", title)
        \cup Always("Last Synced", Now)
        \cup Optional(Truthy(exercise_type), "Exercise Type", exercise_type)
        \cup Optional(Truthy(primary_muscle), "Primary Muscle",
                      Str(Normalized(primary_muscle.text)))
        \cup Optional(/\ Truthy(secondary_muscles)
                      /\ secondary_muscles.type = "list"
                      /\ formatted # <<>>,
                      "Secondary Muscles", List(formatted))
        \cup Optional(Truthy(equipment), "Equipment",
                      Str(Normalized(equipment.text)))
        \cup Always("Is Custom", is_custom)

\* the properties upsert_routine builds, apart from the Hevy ID
\* (lines 365-403)
RoutineFields(routine) ==
  LET routine_data == RoutineData(routine)
      title == Get(routine_data, "title", UNNAMED_ROUTINE)
      folder_id == Get(routine_data, "folder_id", Null)
      notes == Get(routine_data, "notes", Str(<<>>))
      exercises == Get(routine_data, "exercises", List(<<>>))
      created_at == Get(routine_data, "created_at", Null)
      updated_at == Get(routine_data, "updated_at", Null)
  IN  Always("Name", title)
        \cup Always("Exercise Count", Num(Len(exercises.items) * Unit))
        \cup Always("Last Synced", Now)
        \cup Optional(folder_id # Null, "Folder ID", folder_id)
        \cup Optional(Truthy(notes), "Notes", Str(Truncated(notes.text)))
        \cup Optional(Truthy(created_at), "Created", created_at)
        \cup Optional(Truthy(updated_at), "Updated", updated_at)

\* the properties upsert_workout builds, apart from the Hevy ID, the Total
\* Sets and the Routine (lines 477-523)
WorkoutFields(workout) ==
  LET workout_data == WorkoutData(workout)
      title == Get(workout_data, "title", WORKOUT_TITLE)
      description == Get(workout_data, "description", Str(<<>>))
      start_time == Get(workout_data, "start_time", Null)
      end_time == Get(workout_data, "end_time", Null)
      created_at == Get(workout_data, "created_at", Null)
      exercises == Get(workout_data, "exercises", List(<<>>))
  IN  Always("Name", title)
        \cup Always("Exercise Count", Num(Len(exercises.items) * Unit))
        \cup Always("Last Synced", Now)
        \cup Optional(Truthy(description), "Description",
                      Str(Truncated(description.text)))
        \cup Optional(Truthy(start_time), "Start Time", start_time)
        \cup Optional(Truthy(end_time), "End Time", end_time)
        \cup Optional(Truthy(created_at), "Created", created_at)

\* the properties upsert_set builds, apart from the Hevy ID, the Workout
\* and the Exercise (lines 580-651)
SetFields(set_data, exercise, exercise_index, set_index) ==
  LET exercise_name == Get(exercise, "title", UNKNOWN_EXERCISE)
      set_type == Get(set_data, "set_type", NORMAL_SET)
      weight_kg == Get(set_data, "weight_kg", Null)
      reps == Get(set_data, "reps", Null)
      distance_meters == Get(set_data, "distance_meters", Null)
      duration_seconds == Get(set_data, "duration_seconds", Null)
      rpe == Get(set_data, "rpe", Null)
      superset_id == Get(exercise, "superset_id", Null)
      notes == Get(exercise, "notes", Str(<<>>))
  IN  Always("Exercise Name", exercise_name)
        \cup Always("Exercise Order", Num((exercise_index + 1) * Unit))
        \cup Always("Set Number", Num((set_index + 1) * Unit))
        \cup Always("Set Type", set_type)
        \cup Always("Last Synced", Now)
        \cup Optional(weight_kg # Null, "Weight (lb)", WeightLb(weight_kg))
        \cup Optional(reps # Null, "Reps", IntOf(reps))
        \cup Optional(distance_meters # Null, "Distance (m)",
                      FloatOf(distance_meters))
        \cup Optional(duration_seconds # Null, "Duration (s)",
                      IntOf(duration_seconds))
        \cup Optional(rpe # Null, "RPE", FloatOf(rpe))
        \cup Optional(superset_id # Null, "Superset ID", superset_id)
        \cup Optional(Truthy(notes), "Notes", Str(Truncated(notes.text)))

\* a text of the source
SampleText == <<"l", "e", "g", "_", "d", "a", "y">>

\* what the source may hold under a key of free text, of a date or of a
\* category, of a number, of a list of categories
Texts == {NoKey, Null, Str(<<>>), Str(SampleText)}
Numbers == {NoKey, Null, Num(0), Num(7 * Unit + Unit \div 2)}
Lists == {NoKey, Null, List(<<>>), List(<< <<>> >>), List(<< <<>>, SampleText >>)}
Weights == {Num(w) : w \in 0..MaxWeight}

SourceTemplateData ==
  [title : {NoKey, Str(SampleText)}, type : Texts,
   primary_muscle_group : Texts, secondary_muscle_groups : Lists,
   equipment_category : Texts, is_custom : {NoKey, Bool(TRUE)}]

SourceRoutineData ==
  [title : {NoKey, Str(SampleText)}, folder_id : Numbers, notes : Texts,
   exercises : {NoKey, List(<<SampleText>>)}, created_at : Texts,
   updated_at : Texts]

SourceWorkoutData ==
  [title : {NoKey, Str(SampleText)}, description : Texts, start_time : Texts,
   end_time : Texts, created_at : Texts,
   exercises : {NoKey, List(<<SampleText>>)}]

\* a set and its exercise: every weight with nothing else, and the cases
\* of every other key
SourceSets ==
  [set_type : {NoKey}, weight_kg : Weights, reps : {NoKey},
   distance_meters : {NoKey}, duration_seconds : {NoKey}, rpe : {NoKey},
   title : {NoKey}, superset_id : {NoKey}, notes : {NoKey}]
    \cup
  [set_type : {NoKey, Str(SampleText)}, weight_kg : Numbers, reps : Numbers,
   distance_meters : Numbers, duration_seconds : Numbers, rpe : Numbers,
   title : {Str(SampleText)}, superset_id : Numbers, notes : Texts]

SetKeys == {"set_type", "weight_kg", "reps", "distance_meters",
            "duration_seconds", "rpe"}
ExerciseKeys == {"title", "superset_id", "notes"}

\* the pages an upsert is given to relate the entity to
NoPages ==
  [routine_page_id |-> NoPage, workout_page_id |-> NoPage,
   exercise_template_page_id |-> NoPage]
PagesGiven == {NoPage, 1}

\* an entity that is to be upserted
Entity(kind, data, exercise, pages) ==
  [kind |-> kind, entity |-> data, exercise |-> exercise, exercise_index |-> 0,
   set_index |-> 1, pages |-> pages, properties |-> {}, relations |-> {},
   state |-> "source"]

BuildTemplate ==
  /\ built.kind = "template" /\ built.state = "source"
  /\ built' = [built EXCEPT !.properties = TemplateFields(built.entity),
                            !.state = "built"]
  /\ UNCHANGED <<syncVars, loops, legacy, limiter>>

BuildRoutine ==
  /\ built.kind = "routine" /\ built.state = "source"
  /\ built' = [built EXCEPT !.properties = RoutineFields(built.entity),
                            !.state = "built"]
  /\ UNCHANGED <<syncVars, loops, legacy, limiter>>

BuildWorkout ==
  /\ built.kind = "workout" /\ built.state = "source"
  /\ built' = [built EXCEPT
                 !.properties = WorkoutFields(built.entity),
                 !.relations =
                   WorkoutProperties(built.entity,
                                     built.pages.routine_page_id).relations,
                 !.state = "built"]
  /\ UNCHANGED <<syncVars, loops, legacy, limiter>>

BuildSet ==
  /\ built.kind = "set" /\ built.state = "source"
  /\ built' = [built EXCEPT
                 !.properties = SetFields(built.entity, built.exercise,
                                          built.exercise_index, built.set_index),
                 !.relations =
                   SetProperties(
                     [workout_id |-> "w",
                      exercise_index |-> built.exercise_index,
                      set_index |-> built.set_index,
                      workout_page_id |-> built.pages.workout_page_id,
                      exercise_template_page_id |->
                        built.pages.exercise_template_page_id]).relations,
                 !.state = "built"]
  /\ UNCHANGED <<syncVars, loops, legacy, limiter>>

InitProps ==
  /\ NoSync
  /\ loops = NoLoops
  /\ legacy = NoLegacy
  /\ limiter = NoLimiter
  /\ \/ \E r \in SourceTemplateData :
          built = Entity("template", Dict(r), <<>>, NoPages)
     \/ \E r \in SourceRoutineData :
          built = Entity("routine", Dict(r), <<>>, NoPages)
     \/ \E r \in SourceWorkoutData : \E page \in PagesGiven :
          built = Entity("workout", Dict(r), <<>>,
                         [NoPages EXCEPT !.routine_page_id = page])
     \/ \E r \in SourceSets : \E page, template \in PagesGiven :
          built = Entity("set", Dict([k \in SetKeys |-> r[k]]),
                         Dict([k \in ExerciseKeys |-> r[k]]),
                         [NoPages EXCEPT !.workout_page_id = page,
                                         !.exercise_template_page_id = template])

NextProps ==
  \/ BuildTemplate
  \/ BuildRoutine
  \/ BuildWorkout
  \/ BuildSet

SpecProps == InitProps /\ [][NextProps]_vars

----------------------------------------------------------------------------
(* The claims.                                                             *)

\* the tasks whose request is in flight
InFlight == {t \in Tasks : gw[t] = "inflight"}

\* the entities of the batch whose upsert returned a page id
Succeeded == {i \in DOMAIN batch : result[i] > NoPage}

\* the source id an entity of EntityPool carries, "" when it carries none
SourceIdOf(e) ==
  IF e = [id |-> "a"] THEN "a"
  ELSE IF e = [exercise_template |-> [id |-> "b"]] THEN "b"
  ELSE ""

\* C1 (Spec): in every reachable state a database holds at most one page
\* whose Hevy ID equals a given source id, whatever the interleaving of the
\* upserts of a batch.  Stated here for the runs in which every request so
\* far was answered 200, so that it is the interleaving alone that decides:
\* two sibling upserts with the same source id may both query before
\* either creates.
C1_AtMostOneRecordPerSourceId ==
  budget = Budget(MaxFaults) =>
    \A p \in db : \A q \in db :
      (p.database = q.database /\ p.hevy = q.hevy) => p.id = q.id

\* C2 (SpecSeq): when every request is answered 200, a second (and any
\* later) upsert of the same entity in sequence returns the page id the
\* one before returned and leaves exactly one page, that one; the first
\* upsert found no page (and so created one with POST), every later one
\* found the page it then wrote with PATCH.
C2_Idempotent ==
  (destMode = "ok" /\ pc[1] = "done") =>
    /\ result[1] > NoPage
    /\ {p.id : p \in db} = {result[1]}
    /\ Cardinality(db) = 1
    /\ round = 1 => found[1] = NoPage
    /\ round >= 2 => /\ result[1] = prev.result
                     /\ found[1] = result[1]
                     /\ (round = 2 => prev.found = NoPage)

\* C2 witness: the second upsert has returned, every request answered 200
C2_Witness ==
  destMode = "ok" /\ round = 2 /\ pc[1] = "done" /\ result[1] = prev.result

\* C3 (SpecGateway): at most NOTION_SEMAPHORE_LIMIT = 2 requests are in
\* flight at any moment.
C3_InFlightBound == Cardinality(InFlight) <= 2

\* C3 witness: two requests are in flight while another task is queued on
\* the semaphore
C3_Witness == Cardinality(InFlight) = 2 /\ sem_waiters # <<>>

\* C4 (SpecGateway): when every attempt is answered 429 without a
\* Retry-After header, the waits are 2, 4, 8, 16, 30 seconds (none above
\* 30), and the call returns after exactly 5 sends with
\* (429, None, "Rate limited after max retries").
C4_GivesUpAfterFive ==
  [][\A t \in Tasks : destMode = "rate_limited" =>
       /\ gw'[t] = "backoff" =>
            /\ wait'[t] = <<2, 4, 8, 16, 30>>[attempt'[t] + 1]
            /\ wait'[t] <= 30
       /\ (pc[t] = "call" /\ pc'[t] = "done") =>
            /\ Len(sent[t]) = 5
            /\ ret'[t] = [status |-> 429, data |-> NoneData,
                          error |-> "Rate limited after max retries"]]_vars

\* C4 witness: a call gave up after its fifth 429
C4_Witness ==
  destMode = "rate_limited" /\ \E t \in Tasks : pc[t] = "done" /\ ret[t].status = 429

\* C5 as stated (SpecGateway): after the wait that follows a 429 response,
\* at whatever attempt, the task goes on to send the same request again.
C5_AlwaysResends ==
  [][\A t \in Tasks :
       (gw[t] = "backoff" /\ resp[t].status = 429 /\ gw'[t] # "backoff") =>
         /\ wait[t] = IF resp[t].retry_after = NoHeader
                        THEN Min(2 * Pow2(attempt[t]), 30)
                        ELSE Min(resp[t].retry_after, 30)
         /\ wait[t] <= 30
         /\ gw'[t] \in {"waiting", "pacing"}
         /\ req'[t] = req[t]]_vars

\* C5 (SpecGateway), amended: the wait after a 429 response at attempt k is
\* min(h, 30) with a Retry-After header h and min(2*2^k, 30) without one,
\* never above 30; after it the same request is sent again when k < 4,
\* and after the wait of the fifth attempt (k = 4) the call returns
\* (429, None, "Rate limited after max retries") without another send.
\* Every send of a call sends the request of the call.
C5_WaitThenResend ==
  [][\A t \in Tasks :
       /\ (gw[t] = "backoff" /\ resp[t].status = 429 /\ gw'[t] # "backoff") =>
            /\ wait[t] = IF resp[t].retry_after = NoHeader
                           THEN Min(2 * Pow2(attempt[t]), 30)
                           ELSE Min(resp[t].retry_after, 30)
            /\ wait[t] <= 30
            /\ IF attempt[t] < 4
                 THEN /\ gw'[t] \in {"waiting", "pacing"}
                      /\ req'[t] = req[t]
                      /\ attempt'[t] = attempt[t] + 1
                 ELSE /\ pc'[t] = "done"
                      /\ Len(sent[t]) = 5
                      /\ ret'[t] = [status |-> 429, data |-> NoneData,
                                    error |-> "Rate limited after max retries"]
       /\ Len(sent'[t]) = Len(sent[t]) + 1 =>
            /\ sent'[t][Len(sent'[t])] = req[t]
            /\ sent'[t][Len(sent'[t])] = sent'[t][1]]_vars

\* C5 witness: a task that has sent its request at least twice waits the
\* ceiling after a 429 response whose header asked for more
C5_Witness ==
  \E t \in Tasks :
    /\ gw[t] = "backoff" /\ resp[t].status = 429 /\ resp[t].retry_after = 60
    /\ wait[t] = 30 /\ Len(sent[t]) >= 2

\* C6 (SpecGateway): when every attempt times out, the sleeps between the
\* attempts are 2, 4, 8, 16 seconds, there is none after the fifth attempt,
\* and the call returns after exactly 5 sends with
\* (0, None, "Request timeout after retries").
C6_TimeoutRetries ==
  [][\A t \in Tasks : destMode = "timeout" =>
       /\ gw'[t] = "backoff" =>
            /\ attempt'[t] < 4
            /\ wait'[t] = <<2, 4, 8, 16>>[attempt'[t] + 1]
            /\ wait'[t] <= 30
       /\ (pc[t] = "call" /\ pc'[t] = "done") =>
            /\ Len(sent[t]) = 5
            /\ gw[t] = "inflight"
            /\ ret'[t] = [status |-> 0, data |-> NoneData,
                          error |-> "Request timeout after retries"]]_vars

\* C6 witness: a call ended with the terminal timeout error
C6_Witness ==
  destMode = "timeout" /\ \E t \in Tasks : pc[t] = "done" /\ ret[t].status = 0

\* C7 (SpecGateway): a response with a status other than 429 ends the call
\* in the step that receives it: one send was made for each attempt so
\* far, no sleep follows, and the call returns (status, None, error text),
\* or (200, body, None) for a 200.
C7_ImmediateReturn ==
  [][\A t \in Tasks :
       (gw[t] = "inflight" /\ gw'[t] # "inflight"
          /\ resp'[t].kind = "http" /\ resp'[t].status # 429) =>
         /\ pc'[t] = "done"
         /\ gw'[t] = "idle"
         /\ wait'[t] = 0
         /\ Len(sent[t]) = attempt[t] + 1
         /\ ret'[t].status = resp'[t].status
         /\ IF resp'[t].status = 200
              THEN ~ret'[t].data.isNone /\ ret'[t].error = None
              ELSE ret'[t].data = NoneData /\ ret'[t].error = ErrorText(resp'[t].status)]_vars

\* C7 witness: a call ended by a 503 response
C7_Witness ==
  \E t \in Tasks :
    pc[t] = "done" /\ resp[t].status = 503 /\ ret[t].status = 503

\* C8 (SpecGateway): a task whose request is in flight has slept the
\* pacing delay of 0.5 s (500 ms) since it acquired its permit.
C8_PacedSend ==
  \A t \in Tasks : gw[t] = "inflight" => slept[t] >= 500

\* C8 witness: a retry is in flight
C8_Witness ==
  \E t \in Tasks : gw[t] = "inflight" /\ attempt[t] >= 1 /\ slept[t] = 500

\* C9 (Spec): when the fan-out returns, every upsert of the batch has run
\* to its end, whatever the outcome of its siblings, and the count is the
\* number of upserts that returned a page id.
C9_NoSiblingAborted ==
  phase = "returned" =>
    /\ \A i \in DOMAIN batch : pc[i] = "done" /\ result[i] # Pending
    /\ count = Cardinality(Succeeded)

\* C9 witness: the fan-out returned a count of 1 for a batch in which one
\* upsert raised and one returned a page id
C9_Witness ==
  /\ phase = "returned" /\ count = 1
  /\ \E i \in DOMAIN batch : result[i] = Exc
  /\ \E i \in DOMAIN batch : result[i] > NoPage

\* C10 as stated (Spec): the mapping has exactly count entries, one for
\* the source id of each entity whose upsert succeeded and none for the
\* source id of an entity whose upsert failed.
C10_OneEntryPerSuccess ==
  phase = "returned" =>
    /\ Cardinality(id_mapping) = count
    /\ \A i \in Succeeded :
         [key |-> SourceIdOf(batch[i]), page |-> result[i]] \in id_mapping
    /\ \A i \in DOMAIN batch \ Succeeded :
         \A e \in id_mapping : e.key # SourceIdOf(batch[i])

\* C10 (Spec), amended: the keys of the mapping are the source ids ("" for
\* a missing id) of the entities whose upsert succeeded, each mapped to the
\* page id returned by the last of them in batch order; the mapping has
\* at most count entries, and exactly count when the succeeded entities
\* carry pairwise different source ids.
C10_MappingOfSucceeded ==
  phase = "returned" =>
    /\ {e.key : e \in id_mapping} = {SourceIdOf(batch[i]) : i \in Succeeded}
    /\ \A e \in id_mapping :
         \E i \in Succeeded :
           /\ SourceIdOf(batch[i]) = e.key
           /\ result[i] = e.page
           /\ \A j \in Succeeded : SourceIdOf(batch[j]) = e.key => j <= i
    /\ Cardinality(id_mapping) <= count
    /\ (\A i \in Succeeded : \A j \in Succeeded :
          SourceIdOf(batch[i]) = SourceIdOf(batch[j]) => i = j)
         => Cardinality(id_mapping) = count

\* C10 witness: of two entities with different source ids one failed and
\* one succeeded, and the mapping holds the one entry
C10_Witness ==
  /\ phase = "returned" /\ Len(batch) = 2 /\ count = 1
  /\ SourceIdOf(batch[1]) # SourceIdOf(batch[2])
  /\ Cardinality(id_mapping) = 1

----------------------------------------------------------------------------
(* The claims on the orchestrators (SpecRun).                              *)

\* the kinds of upsert
UpsertKinds == {"templates", "routines", "workout", "sets"}

\* every entry a of the log comes before every entry b
OrderedBefore(log, a, b) ==
  \A i \in DOMAIN log : \A j \in DOMAIN log :
    (log[i] = a /\ log[j] = b) => i < j

\* the order Templates, Routines, Workouts with their Sets
TemplatesRoutinesWorkouts(log) ==
  /\ OrderedBefore(log, "templates", "routines")
  /\ OrderedBefore(log, "templates", "workout")
  /\ OrderedBefore(log, "templates", "sets")
  /\ OrderedBefore(log, "routines", "workout")
  /\ OrderedBefore(log, "routines", "sets")

\* every task that is in a gateway call runs an upsert of the stage the
\* run is in: no upsert of an earlier stage is still running
OnlyCurrentStage ==
  \A t \in Tasks :
    gw[t] # "idle" =>
      /\ stage \in UpsertKinds
      /\ t \in DOMAIN batch
      /\ pc[t] \in {"query", "write"}
      /\ req[t].json.hevy = UpsertProperties(stage, batch[t]).hevy
      /\ req[t].json.database \in {Database(stage), None}

\* the routine pages of the destination with the Hevy ID
RoutinePages(routine_id) ==
  {p \in db : p.database = ROUTINES_DB /\ p.hevy = routine_id}

\* C11 (SpecRun): in a full sync the requests to the destination come in
\* the order templates, routines, workouts with their sets; every task in
\* a gateway call belongs to the stage the run is in, so a stage begins
\* only when every upsert of the stage before has ended; and a workout
\* whose routine_id is the id of a routine page written in this run is
\* upserted with the page id of such a page as its routine.
C11_StagesInOrder ==
  run.mode = "full" =>
    /\ TemplatesRoutinesWorkouts(issued)
    /\ OnlyCurrentStage
    /\ stage = "workout" =>
         LET routine_id == Get(WorkoutData(batch[1].workout), "routine_id", None)
         IN  (routine_id # None /\ RoutinePages(routine_id) # {}) =>
               batch[1].routine_page_id \in {p.id : p \in RoutinePages(routine_id)}

\* C11 witness: in a full sync that synced templates and routines, the
\* request of a workout upsert that found its routine is in flight
C11_Witness ==
  /\ run.mode = "full" /\ stage = "workout" /\ gw[1] = "inflight"
  /\ batch[1].routine_page_id # NoPage
  /\ issued = <<"templates", "routines", "workout">>

RelationId(n) == <<"00000000", "0000", Dec(n)>>

\* the items of the properties with the key
Items(relations, key) == {x \in relations : x.key = key}

\* C13 (SpecRun): the properties a full sync writes for a workout hold the
\* key Routine exactly when the routine mapping has an entry for the
\* workout's routine_id, and then the relation references the page id of
\* that entry, without separators, and nothing else; the properties of a
\* workout hold no other relation.
C13_RoutineRelation ==
  (run.mode = "full" /\ stage = "workout" /\ pc[1] = "write") =>
    LET routine_id == Get(WorkoutData(run.workout), "routine_id", None)
        entries == {e \in run.routine_mapping : routine_id # None /\ e.key = routine_id}
    IN  /\ Items(req[1].json.relations, "Routine") =
             {[key |-> "Routine", relation |-> <<RelationId(e.page)>>] : e \in entries}
        /\ \A x \in req[1].json.relations : x.key = "Routine"

\* C13 witness: the write of a workout with the relation to its routine is
\* in flight
C13_Witness ==
  /\ run.mode = "full" /\ stage = "workout" /\ pc[1] = "write"
  /\ gw[1] = "inflight"
  /\ Items(req[1].json.relations, "Routine") # {}

\* C14 (SpecRun): every write of a set carries the key Workout once, with
\* the one page id (without separators) that the upsert of the set's own
\* workout returned in this run, a page of the workouts database with the
\* workout's id; and every page of the sets database points at exactly
\* one page, a workout page whose id begins the set's composite id.
C14_SetPointsAtItsWorkout ==
  /\ stage = "sets" =>
       \A t \in DOMAIN batch :
         pc[t] = "write" =>
           /\ Items(req[t].json.relations, "Workout") =
                {[key |-> "Workout", relation |-> <<RelationId(run.workout_page_id)>>]}
           /\ \E q \in db :
                /\ q.id = run.workout_page_id
                /\ q.database = WORKOUTS_DB
                /\ q.hevy = Get(WorkoutData(run.workout), "id", "")
  /\ \A p \in db :
       p.database = SETS_DB =>
         \E q \in db :
           /\ q.database = WORKOUTS_DB
           /\ Items(p.relations, "Workout") =
                {[key |-> "Workout", relation |-> <<RelationId(q.id)>>]}
           /\ \E e \in 0..1 : \E i \in 0..1 : p.hevy = q.hevy \o "-" \o Dec(e) \o "-" \o Dec(i)

\* C14 witness: the sets of two workouts have been written
C14_Witness ==
  /\ stage = "done"
  /\ Cardinality({p \in db : p.database = SETS_DB}) = 4
  /\ Cardinality({p \in db : p.database = WORKOUTS_DB}) = 2

\* the exercise of the workout at hand the set of task t belongs to
ExerciseOf(t) ==
  Get(WorkoutData(run.workout), "exercises", <<>>)[batch[t].exercise_index + 1]

\* C15 (SpecRun): the write of a set carries the key Exercise exactly when
\* the template mapping of the run has an entry for the
\* exercise_template_id of the set's exercise ("" when the exercise has
\* none), and then the relation references the page id of that entry;
\* every set of the workout has its upsert, with or without the entry.
C15_ExerciseRelation ==
  stage = "sets" =>
    /\ \A t \in DOMAIN batch :
         LET template_id == Get(ExerciseOf(t), "exercise_template_id", "")
             entries == {e \in run.template_mapping : e.key = template_id}
         IN  pc[t] = "write" =>
               Items(req[t].json.relations, "Exercise") =
                 {[key |-> "Exercise", relation |-> <<RelationId(e.page)>>] : e \in entries}
    /\ \A i \in DOMAIN Get(WorkoutData(run.workout), "exercises", <<>>) :
         LET exercise == Get(WorkoutData(run.workout), "exercises", <<>>)[i]
         IN  Cardinality({t \in DOMAIN batch : batch[t].exercise_index = i - 1})
               = Len(Get(exercise, "sets", <<>>))

\* C15 witness: the template stage ran and the upsert of template "a"
\* failed; the write of a set of an exercise with that template is in
\* flight, without the key Exercise
C15_Witness ==
  /\ stage = "sets" /\ issued[1] = "templates" /\ run.template_count = 0
  /\ \E t \in DOMAIN batch :
       /\ pc[t] = "write" /\ gw[t] = "inflight"
       /\ Get(ExerciseOf(t), "exercise_template_id", "") = "a"
       /\ Items(req[t].json.relations, "Exercise") = {}

\* the triples (workout id, exercise_index, set_index) the composite ids
\* are compared on: ids that contain the separator, indexes of one and of
\* two digits
Triples == {"w", "w-0", "w-1", "w-0-0"} \X {0, 1, 10, 11} \X {0, 1, 10, 11}

\* C16 (SpecRun): different triples (workout id, exercise_index,
\* set_index) have different composite ids; the sets of a workout are
\* looked up and written under pairwise different ids, and when their
\* upserts have ended, those that returned a page id returned pairwise
\* different pages, each holding the composite id of its set: n pages
\* when all n succeeded.
C16_DistinctSetRecords ==
  /\ stage \in {"start", "fetch_workout"} =>
       \A x \in Triples : \A y \in Triples :
         x # y => CompositeSetId(x[1], x[2], x[3]) # CompositeSetId(y[1], y[2], y[3])
  /\ stage = "sets" =>
       /\ \A t \in DOMAIN batch : \A u \in DOMAIN batch :
            t # u => /\ <<batch[t].exercise_index, batch[t].set_index>>
                          # <<batch[u].exercise_index, batch[u].set_index>>
                     /\ pc[t] # "done" /\ pc[u] # "done" => req[t].json.hevy # req[u].json.hevy
                     /\ (result[t] > NoPage /\ result[u] > NoPage) => result[t] # result[u]
       /\ \A t \in DOMAIN batch :
            result[t] > NoPage =>
              \E p \in db :
                /\ p.id = result[t] /\ p.database = SETS_DB
                /\ p.hevy = batch[t].workout_id \o "-" \o Dec(batch[t].exercise_index)
                              \o "-" \o Dec(batch[t].set_index)

\* C16 witness: the two sets of the second workout, whose id is the id of
\* the first followed by "-0", have been written next to the two of the
\* first: four pages
C16_Witness ==
  /\ stage = "sets" /\ GatherDone /\ Len(batch) = 2
  /\ batch[1].workout_id = "w-0"
  /\ \A t \in DOMAIN batch : result[t] > NoPage
  /\ Cardinality({p.hevy : p \in {q \in db : q.database = SETS_DB}}) = 4

----------------------------------------------------------------------------
(* The claims on the resolver and the write of an upsert (Spec).           *)

\* C17 (Spec): an upsert sends its query first and then goes on to one
\* write, a PATCH of the page found when the resolver returned a page id,
\* a POST under the target database when it returned none; when the write
\* has ended the upsert returns the id of the page written, or none when
\* the last response of the write was not a 200.
C17_QueryThenOneWrite ==
  [][\A t \in DOMAIN batch :
       /\ (pc[t] = "query" /\ pc'[t] # "query") =>
            /\ sent[t] # <<>>
            /\ pc'[t] = "write"
            /\ req'[t] = IF found'[t] # NoPage
                           THEN Request("PATCH", "page", found'[t],
                                        Payload(None, Properties(HevyId(batch[t]), {})))
                           ELSE Request("POST", "pages", NoPage,
                                        Payload(TEMPLATES_DB, Properties(HevyId(batch[t]), {})))
       /\ (pc[t] = "write" /\ pc'[t] # "write") =>
            /\ sent[t] # <<>>
            /\ pc'[t] = "done"
            /\ IF resp'[t].status = 200
                 THEN \E p \in db' : p.id = result'[t] /\ p.hevy = HevyId(batch[t])
                 ELSE result'[t] = NoPage]_vars

\* C18 (Spec): when the query of an upsert has ended, the resolver has
\* not raised: it returned the first match of a query answered 200 and
\* none otherwise, and the upsert goes on to its write, a POST creating a
\* page when the resolver returned none.
C18_FailedQueryIsNotFound ==
  [][\A t \in DOMAIN batch :
       (pc[t] = "query" /\ pc'[t] # "query") =>
         /\ ret'[t] # Raised
         /\ pc'[t] = "write"
         /\ found'[t] = IF ret'[t].status = 200 /\ ret'[t].data.ids # <<>>
                           THEN ret'[t].data.ids[1] ELSE NoPage
         /\ found'[t] = NoPage => req'[t].method = "POST" /\ req'[t].url = "pages"]_vars

\* the query of the upsert of task t ended otherwise than with a 200
QueryErrored(t) == ret[t] # NoResult /\ ret[t].status # 200

\* C19 as stated (Spec): when the fan-out has returned, no entity whose
\* query errored has a page id as the outcome of its upsert (so that it is
\* neither in the mapping nor counted).
C19_ErroredQueryExcluded ==
  phase = "returned" =>
    \A t \in DOMAIN batch : QueryErrored(t) => t \notin Succeeded

\* C19 amended (Spec): a query that ended with an error result (a status
\* other than 200, a timeout, the retries used up) is taken as "not
\* found": the upsert goes on to a POST that creates a page, and the entity
\* is in the mapping and counted exactly when that write returned a page
\* id; an entity whose query raised has the error as its outcome and is not
\* counted.  The fan-out returns only when every entity's upsert has ended,
\* with the number of page ids as count and their source ids as keys.
C19_ErroredQueryCreates ==
  /\ [][\A t \in DOMAIN batch :
          (pc[t] = "query" /\ pc'[t] # "query" /\ ret'[t].status # 200) =>
            IF ret'[t] = Raised
              THEN pc'[t] = "done" /\ result'[t] = Exc
              ELSE /\ pc'[t] = "write" /\ found'[t] = NoPage
                   /\ req'[t].method = "POST" /\ req'[t].url = "pages"]_vars
  /\ [](phase = "returned" =>
          /\ \A t \in DOMAIN batch : pc[t] = "done"
          /\ \A t \in DOMAIN batch :
               (QueryErrored(t) /\ t \in Succeeded) =>
                 /\ found[t] = NoPage
                 /\ \E p \in db : p.id = result[t] /\ p.hevy = HevyId(batch[t])
          /\ count = Cardinality(Succeeded)
          /\ {e.key : e \in id_mapping} = {HevyId(batch[t]) : t \in Succeeded})

\* C19 witness: the fan-out returned with an entity counted whose query
\* was answered 503, next to an entity whose query raised
C19_Witness ==
  /\ phase = "returned"
  /\ \E t \in DOMAIN batch : ret[t].status = 503 /\ t \in Succeeded
  /\ \E t \in DOMAIN batch : ret[t] = Raised /\ result[t] = Exc
  /\ count = 1

----------------------------------------------------------------------------
(* The claim on a failed workout of the full sync (SpecRun).               *)

\* C20 (SpecRun): a full sync whose fetches succeeded ends, whatever the
\* upserts of its workouts returned or raised, with a result that carries
\* the counts, after the upsert of every workout of the collection: no
\* workout is left, and the workouts counted are those whose upsert
\* returned a page id.
C20_WorkoutFailureNonFatal ==
  (run.mode = "full" /\ stage \in {"done", "failed"} /\ run.error # "fetch") =>
    /\ run.outcome = "success"
    /\ run.left = <<>>
    /\ run.workout_count <= Cardinality({p \in db : p.database = WORKOUTS_DB})

----------------------------------------------------------------------------
(* The claims on the result, the mappings and the loop over the workouts   *)
(* (SpecRun).                                                              *)

\* an upsert awaited in the step at hand returned none or raised
UpsertFailedNow == \E t \in DOMAIN batch : result[t] \in {NoPage, Exc}

\* C21 (SpecRun): the run reports "error" exactly when it aborted; a run
\* that completes in a step in which an upsert it awaited had failed
\* reports "partial_success", and a run that completes with "success" had
\* no failed upsert in that step.
C21_StatusTellsPartialFailure ==
  /\ [](stage = "failed" <=> run.outcome = "error")
  /\ [][(stage # "done" /\ stage' = "done") =>
          /\ UpsertFailedNow => run'.outcome = "partial_success"
          /\ run'.outcome = "success" => ~UpsertFailedNow]_vars

\* C25 (SpecRun): no step of the workout and set stage changes the
\* template mapping or the routine mapping; a mapping changes only in the
\* step in which its fan-out returns, all its upserts ended, and it was
\* empty until then.
C25_MappingsReadOnly ==
  [][/\ stage \in {"workout", "sets"} =>
          /\ run'.template_mapping = run.template_mapping
          /\ run'.routine_mapping = run.routine_mapping
     /\ run'.template_mapping # run.template_mapping =>
          stage = "templates" /\ GatherDone /\ run.template_mapping = {}
     /\ run'.routine_mapping # run.routine_mapping =>
          stage = "routines" /\ GatherDone /\ run.routine_mapping = {}]_vars

\* C25 witness: a full sync ended after two workouts with both mappings
\* filled
C25_Witness ==
  /\ run.mode = "full" /\ stage = "done" /\ run.workout_count = 2
  /\ run.template_mapping # {} /\ run.routine_mapping # {}

RECURSIVE TotalSets(_, _)
\* the number of sets of the exercises, from exercise i on
TotalSets(exercises, i) ==
  IF i > Len(exercises) THEN 0
  ELSE Len(Get(exercises[i], "sets", <<>>)) + TotalSets(exercises, i + 1)

\* a mapping the workout stage reads is empty
MappingMissing == run.template_mapping = {} \/ run.routine_mapping = {}

\* C26 (SpecRun): with an empty template mapping or routine mapping, the
\* full sync goes from the fetch of the workouts to the upsert of the
\* first workout, from a workout whose upsert returned a page to the
\* upserts of all its sets, and from a workout that is dealt with to the
\* upsert of the next: it ends only when no workout is left (or the fetch
\* of the workouts or an upsert of a workout raised).
C26_NotBlockedByMissingMapping ==
  [][(run.mode = "full" /\ MappingMissing /\ stage' # stage) =>
       /\ stage = "fetch_workouts" =>
            \/ stage' = "workout" /\ pc'[1] = "query" /\ run'.workout # NoWorkout
            \/ stage' = "done" /\ run'.left = <<>> /\ run'.workout = NoWorkout
            \/ stage' = "failed" /\ run'.error = "fetch"
       /\ (stage = "workout" /\ result[1] > NoPage) =>
            LET n == TotalSets(Get(WorkoutData(run.workout), "exercises", <<>>), 1)
            IN  IF n > 0
                  THEN /\ stage' = "sets" /\ Len(batch') = n
                       /\ \A t \in DOMAIN batch' : pc'[t] = "query"
                  ELSE stage' = "done" /\ run'.left = <<>>
       /\ ((stage = "workout" /\ result[1] = NoPage) \/ stage = "sets") =>
            IF run.left # <<>>
              THEN stage' = "workout" /\ run'.workout = Head(run.left) /\ pc'[1] = "query"
              ELSE stage' = "done"
       /\ stage' = "done" => run'.left = <<>>]_vars

\* C26 witness: a full sync ended with both mappings empty and the pages
\* of two workouts and of their four sets written
C26_Witness ==
  /\ run.mode = "full" /\ stage = "done"
  /\ run.template_mapping = {} /\ run.routine_mapping = {}
  /\ run.workout_count = 2 /\ run.set_count = 4

\* C29 (SpecRun): in a full sync the upserts of the sets of a workout
\* begin only in the step in which the upsert of that workout returned a
\* page id; while a workout is upserted no other upsert is running; the
\* run leaves the sets of a workout only when every upsert of a set has
\* ended; after a workout whose upsert returned none the run goes to the
\* next workout or ends.
C29_WorkoutsOneAfterAnother ==
  /\ []((run.mode = "full" /\ stage = "workout") =>
          /\ Len(batch) = 1
          /\ \A t \in Tasks : t > 1 => pc[t] = "idle" /\ gw[t] = "idle")
  /\ []((run.mode = "full" /\ stage = "sets") =>
          /\ run.workout_page_id > NoPage
          /\ \E p \in db : /\ p.id = run.workout_page_id
                            /\ p.hevy = Get(WorkoutData(run.workout), "id", ""))
  /\ [][run.mode = "full" =>
          /\ (stage # "sets" /\ stage' = "sets") =>
               stage = "workout" /\ result[1] > NoPage /\ run'.workout = run.workout
          /\ (stage = "sets" /\ stage' # "sets") =>
               \A t \in DOMAIN batch : pc[t] = "done"
          /\ (stage = "workout" /\ result[1] = NoPage /\ stage' # stage) =>
               \/ stage' = "done"
               \/ stage' = "workout" /\ run'.workout # run.workout]_vars

\* C29 witness: the second workout is being upserted, after the two sets
\* of the first were written
C29_Witness ==
  /\ run.mode = "full" /\ stage = "workout" /\ gw[1] = "inflight"
  /\ Get(WorkoutData(run.workout), "id", "") = "w-0"
  /\ run.set_count = 2

----------------------------------------------------------------------------
(* The claims on the configuration check and the fetches (SpecRun).        *)

\* a required variable is not set, or empty
RequiredMissing ==
  \E x \in {run.hevy_api_key, run.notion_api_key, run.workouts_db_id} :
    x \in {None, ""}

\* no request is in the making, and none was sent to the destination
NoRequestYet ==
  /\ issued = <<>>
  /\ \A t \in Tasks : pc[t] = "idle" /\ gw[t] = "idle" /\ sent[t] = <<>>

\* the run awaits a fetch from the source
FetchStages == {"fetch_templates", "fetch_routines", "fetch_workouts", "fetch_workout"}

\* C22 (SpecRun): with a required variable missing (the source API key,
\* the destination API key or the workouts database id), either entry
\* point is still in its handler or has returned the error response, and
\* no fetch was awaited and no request made: whenever the run is past the
\* handler, every required variable is set.
C22_ConfigCheckedFirst ==
  /\ RequiredMissing =>
       /\ stage \in {"handler", "rejected"}
       /\ NoRequestYet
  /\ stage = "handler" => NoRequestYet /\ run.outcome = "running"
  /\ stage = "rejected" <=> run.outcome = "config_error"
  /\ stage = "rejected" => RequiredMissing

\* C22 witness: the webhook handler has returned the error response for
\* the missing workouts database id, both keys being set
C22_Witness ==
  /\ run.mode = "webhook" /\ stage = "rejected"
  /\ run.workouts_db_id = None
  /\ run.hevy_api_key = "key" /\ run.notion_api_key = "key"

\* C23 (SpecRun): the step in which a fetch fails is taken from a fetch,
\* and ends the run with the outcome error; after an aborted run nothing
\* happens any more, so no later stage issues a request; in the webhook
\* run no request was issued before the fetch of the workout, nor is one
\* after its failure.
C23_FetchFailureAborts ==
  /\ [][(run'.error = "fetch" /\ run.error # "fetch") =>
          /\ stage \in FetchStages
          /\ stage' = "failed" /\ run'.outcome = "error"
          /\ issued' = issued
          /\ \A t \in Tasks : pc'[t] = "idle" /\ gw'[t] = "idle"]_vars
  /\ [][stage = "failed" => stage' = "failed" /\ issued' = issued /\ db' = db]_vars
  /\ []((run.mode = "webhook" /\ stage = "fetch_workout") => NoRequestYet)
  /\ []((run.mode = "webhook" /\ run.error = "fetch" /\ run.workout = NoWorkout) =>
          NoRequestYet)

\* C23 witness: the full sync aborted at the fetch of the workouts, after
\* the requests of the template and routine stages
C23_Witness ==
  /\ run.mode = "full" /\ stage = "failed" /\ run.error = "fetch"
  /\ issued = <<"templates", "routines">>
  /\ run.template_count > 0

----------------------------------------------------------------------------
(* The claim on termination (SpecLive).                                    *)

\* C30 (SpecLive): a gateway call is never in an attempt beyond the fifth
\* and sends at most five times; in a fan-out of more upserts than
\* permits, the time comes from which on every task has ended, no task
\* queues for a permit or holds one, and the fan-out has returned.
C30_EveryTaskCompletes ==
  /\ [](\A t \in Tasks : attempt[t] < NOTION_MAX_RETRIES /\ Len(sent[t]) <= NOTION_MAX_RETRIES)
  /\ <>[](/\ phase = "returned"
          /\ \A t \in 1..NumCallers : pc[t] = "done" /\ gw[t] = "idle"
          /\ sem_waiters = <<>> /\ sem_value = NOTION_SEMAPHORE_LIMIT)

\* C30 witness: a task queues for a permit while two tasks hold theirs in
\* the backoff of their fifth attempt
C30_Witness ==
  /\ gw[3] = "waiting"
  /\ \A t \in {1, 2} : gw[t] = "backoff" /\ attempt[t] = NOTION_MAX_RETRIES - 1

----------------------------------------------------------------------------
(* The claim on the semaphore cache (SpecLoops).                           *)

----------------------------------------------------------------------------
(* The claims on the properties that are built (SpecProps).                *)

\* the optional properties: the key written, the key of the source and the
\* part of the source it is read from
OptionalKeys ==
  {[kind |-> "template", key |-> "Exercise Type", field |-> "type", of |-> "entity"],
   [kind |-> "template", key |-> "Primary Muscle", field |-> "primary_muscle_group", of |-> "entity"],
   [kind |-> "template", key |-> "Secondary Muscles", field |-> "secondary_muscle_groups", of |-> "entity"],
   [kind |-> "template", key |-> "Equipment", field |-> "equipment_category", of |-> "entity"],
   [kind |-> "routine", key |-> "Folder ID", field |-> "folder_id", of |-> "entity"],
   [kind |-> "routine", key |-> "Notes", field |-> "notes", of |-> "entity"],
   [kind |-> "routine", key |-> "Created", field |-> "created_at", of |-> "entity"],
   [kind |-> "routine", key |-> "Updated", field |-> "updated_at", of |-> "entity"],
   [kind |-> "workout", key |-> "Description", field |-> "description", of |-> "entity"],
   [kind |-> "workout", key |-> "Start Time", field |-> "start_time", of |-> "entity"],
   [kind |-> "workout", key |-> "End Time", field |-> "end_time", of |-> "entity"],
   [kind |-> "workout", key |-> "Created", field |-> "created_at", of |-> "entity"],
   [kind |-> "set", key |-> "Weight (lb)", field |-> "weight_kg", of |-> "entity"],
   [kind |-> "set", key |-> "Reps", field |-> "reps", of |-> "entity"],
   [kind |-> "set", key |-> "Distance (m)", field |-> "distance_meters", of |-> "entity"],
   [kind |-> "set", key |-> "Duration (s)", field |-> "duration_seconds", of |-> "entity"],
   [kind |-> "set", key |-> "RPE", field |-> "rpe", of |-> "entity"],
   [kind |-> "set", key |-> "Superset ID", field |-> "superset_id", of |-> "exercise"],
   [kind |-> "set", key |-> "Notes", field |-> "notes", of |-> "exercise"]}

\* the value of the source for an optional property
SourceValue(o) ==
  IF o.of = "entity" THEN Get(built.entity, o.field, NoKey)
  ELSE Get(built.exercise, o.field, NoKey)

\* a value that is there: a number, a text or a list of texts that is not
\* empty
HasValue(v) ==
  \/ v.type = "number"
  \/ v.type = "string" /\ v.text # <<>>
  \/ v.type = "list" /\ \E i \in 1..Len(v.items) : v.items[i] # <<>>

Written(key) == {p \in built.properties : p.key = key}

\* the optional relations: the key written and the page it is to name
OptionalRelations ==
  {[kind |-> "workout", key |-> "Routine", page |-> "routine_page_id"],
   [kind |-> "set", key |-> "Workout", page |-> "workout_page_id"],
   [kind |-> "set", key |-> "Exercise", page |-> "exercise_template_page_id"]}

Related(key) == {p \in built.relations : p.key = key}

\* C27 (SpecProps): the properties built for an entity contain the key of
\* an optional property only when the source has a value for it, and then
\* with a value that is not empty; when the source has no value (no key,
\* null, an empty text or list) the key is missing.  A value the source
\* has is written under its key.  The same holds of the relations and the
\* pages they are to name.
C27_OptionalOnlyWhenPresent ==
  built.state = "built" =>
    /\ \A o \in {x \in OptionalKeys : x.kind = built.kind} :
         /\ Written(o.key) # {} => HasValue(SourceValue(o))
         /\ ~HasValue(SourceValue(o)) => Written(o.key) = {}
         /\ \A p \in Written(o.key) : HasValue(p.value)
         /\ HasValue(SourceValue(o)) => Cardinality(Written(o.key)) = 1
    /\ \A o \in {x \in OptionalRelations : x.kind = built.kind} :
         /\ Related(o.key) # {} => built.pages[o.page] # NoPage
         /\ built.pages[o.page] = NoPage => Related(o.key) = {}
         /\ \A p \in Related(o.key) : p.relation # <<>>
         /\ built.pages[o.page] # NoPage => Cardinality(Related(o.key)) = 1

\* C27 witness: a set built without a weight key, with null reps and with
\* empty notes, and with an RPE
C27_Witness ==
  /\ built.kind = "set" /\ built.state = "built"
  /\ "weight_kg" \notin DOMAIN built.entity
  /\ "reps" \in DOMAIN built.entity /\ built.entity["reps"] = Null
  /\ "notes" \in DOMAIN built.exercise /\ built.exercise["notes"] = Str(<<>>)
  /\ "rpe" \in DOMAIN built.entity /\ HasValue(built.entity["rpe"])
  /\ Written("Weight (lb)") = {} /\ Written("Reps") = {} /\ Written("Notes") = {}
  /\ Written("RPE") # {}
  /\ built.pages.exercise_template_page_id = NoPage /\ Related("Exercise") = {}
  /\ Related("Workout") # {}

\* C28 (SpecProps): a set with a weight is written with the pounds that
\* are weight_kg * 2.20462 to the nearest hundredth, 220.46 for 100 kg; a
\* set with no weight is written with no weight property.
C28_WeightInPounds ==
  (built.kind = "set" /\ built.state = "built") =>
    LET weight_kg == Get(built.entity, "weight_kg", Null)
    IN  IF weight_kg = Null THEN Written("Weight (lb)") = {}
        ELSE \E p \in Written("Weight (lb)") :
               /\ Written("Weight (lb)") = {p}
               /\ p.value.type = "number"
               /\ 2 * (p.value.number * 50000 - weight_kg.number * 110231) <= 50000
               /\ 2 * (weight_kg.number * 110231 - p.value.number * 50000) <= 50000
               /\ weight_kg.number = 100 * Unit => p.value.number = 22046

\* C28 witness: a set of 100 kg is built with 220.46 lb
C28_Witness ==
  /\ built.kind = "set" /\ built.state = "built"
  /\ Get(built.entity, "weight_kg", Null) = Num(100 * Unit)
  /\ Written("Weight (lb)") = {[key |-> "Weight (lb)", value |-> Num(22046)]}

----------------------------------------------------------------------------
(* The claims on the permits and on the results of the gateway.            *)

\* the tasks inside `async with semaphore`
Holders == {t \in Tasks : gw[t] \in {"pacing", "inflight", "backoff"}}

\* C31 (SpecMethods): the free permits and the permits held are 2
\* together; a task is inside the semaphore, queued for it or neither,
\* and queued at most once; a call that has ended, however it ended,
\* holds no permit and is not queued.
C31_PermitsConserved ==
  /\ sem_value \in 0..NOTION_SEMAPHORE_LIMIT
  /\ sem_value + Cardinality(Holders) = NOTION_SEMAPHORE_LIMIT
  /\ \A i \in DOMAIN sem_waiters :
       /\ gw[sem_waiters[i]] = "waiting"
       /\ \A j \in DOMAIN sem_waiters : sem_waiters[i] = sem_waiters[j] => i = j
  /\ \A t \in Tasks :
       /\ gw[t] = "waiting" => \E i \in DOMAIN sem_waiters : sem_waiters[i] = t
       /\ pc[t] = "done" => gw[t] = "idle"

\* C31 witness: the call without a send has ended with 429, another call
\* has ended with the error its send raised, and a third is inside the
\* semaphore
C31_Witness ==
  /\ pc[1] = "done" /\ ret[1] = RateLimitedResult
  /\ \E t \in Tasks : pc[t] = "done" /\ ret[t] = Raised
  /\ \E t \in Tasks : gw[t] = "inflight"
  /\ sem_value = NOTION_SEMAPHORE_LIMIT - 1

\* C32 (SpecGateway): a task in its backoff sleep is one of the at most 2
\* tasks inside the semaphore, and while it sleeps the permits free are
\* those the others do not hold; when the sleep is over the task leaves
\* the semaphore and, for a next attempt, enters it again: behind the
\* queued tasks, the first of which gets the permit, or at once when no
\* task is queued.
C32_PermitKeptInBackoff ==
  /\ [](\A t \in Tasks : gw[t] = "backoff" =>
          /\ t \in Holders
          /\ Cardinality(Holders \ {t}) <= NOTION_SEMAPHORE_LIMIT - 1
          /\ sem_value = NOTION_SEMAPHORE_LIMIT - Cardinality(Holders))
  /\ [][\A t \in Tasks :
          (gw[t] = "backoff" /\ gw'[t] # "backoff") =>
            IF attempt[t] + 1 < NOTION_MAX_RETRIES
              THEN /\ attempt'[t] = attempt[t] + 1
                   /\ sem_value' = sem_value
                   /\ IF sem_waiters = <<>>
                        THEN gw'[t] = "pacing" /\ sem_waiters' = <<>>
                        ELSE /\ gw'[t] = "waiting"
                             /\ sem_waiters' = Append(Tail(sem_waiters), t)
                             /\ gw'[Head(sem_waiters)] = "pacing"
              ELSE gw'[t] = "idle" /\ pc'[t] = "done"]_vars

\* C32 witness: a task that was rate limited is queued for its next
\* attempt behind the permits of two others, one of them in its backoff
\* sleep
C32_Witness ==
  \E t, u \in Tasks :
    /\ gw[t] = "waiting" /\ attempt[t] > 0
    /\ gw[u] = "backoff"
    /\ sem_value = 0

\* the terminal result of a call whose last attempt timed out (line 124)
TimeoutResult == Result(0, NoneData, "Request timeout after retries")

\* C33 (SpecMethods): a call with one of the methods GET, POST, PATCH
\* sends at most 5 times; when it returns, its result is (429, none,
\* "Rate limited after max retries") exactly when it has sent 5 times and
\* the last response was a 429, and (0, none, "Request timeout after
\* retries") exactly when it has sent 5 times and the last send timed
\* out.
C33_TerminalResults ==
  /\ [](\A t \in Tasks : Len(sent[t]) <= NOTION_MAX_RETRIES)
  /\ [][\A t \in Tasks :
          (ValidMethod(req[t].method) /\ pc[t] = "call" /\ pc'[t] = "done") =>
            /\ ret'[t].status = 429 <=>
                 (Len(sent[t]) = NOTION_MAX_RETRIES /\ resp'[t].kind = "http"
                    /\ resp'[t].status = 429)
            /\ ret'[t].status = 429 => ret'[t] = RateLimitedResult
            /\ ret'[t] = TimeoutResult <=>
                 (Len(sent[t]) = NOTION_MAX_RETRIES /\ resp'[t] = TimeoutResponse)
            /\ ret'[t].error = "Request timeout after retries" => ret'[t] = TimeoutResult]_vars

\* C33 witness: of two calls that sent, one has ended with the 429 of its
\* fifth attempt and one with the timeout of its fifth attempt
C33_Witness ==
  \E t, u \in Tasks \ {1} :
    /\ pc[t] = "done" /\ ret[t] = RateLimitedResult /\ resp[t].status = 429
    /\ pc[u] = "done" /\ ret[u] = TimeoutResult /\ resp[u] = TimeoutResponse

----------------------------------------------------------------------------
(* The claims on runs without a sets database and on failed upserts.       *)

\* C35 (SpecRun): a run without a sets database id sends no request for a
\* set, queues none, and counts 0 sets.
C35_NoSetRequestWithoutSetsDb ==
  run.sets_db_id = None =>
    /\ stage # "sets"
    /\ \A i \in DOMAIN issued : issued[i] # "sets"
    /\ run.set_count = 0

\* the requests task t has sent or is to send
RequestsOf(t) == {sent[t][i] : i \in DOMAIN sent[t]} \cup {req[t]}

\* C36 (SpecRun): in a webhook run, an upsert of the routine that returned
\* none is followed by the next step of the run, the fetch of the
\* templates or the upsert of the workout, and the workout is then written
\* without a Routine relation; an upsert of the workout that returned
\* none ends the run with an error, no request for a set having been or
\* being sent; no page of the destination is ever removed.
C36_WebhookFailures ==
  /\ [][(run.mode = "webhook" /\ stage = "routines" /\ stage' # stage
           /\ result[1] = NoPage) =>
          /\ stage' \in {"fetch_templates", "workout"}
          /\ run'.routine_page_id = NoPage
          /\ run'.outcome = "running"]_vars
  /\ []((run.mode = "webhook" /\ stage = "workout"
           /\ run.routine_page_id = NoPage) =>
          \A q \in RequestsOf(1) : \A p \in q.json.relations : p.key # "Routine")
  /\ [][(run.mode = "webhook" /\ stage = "workout" /\ stage' # stage
           /\ result[1] = NoPage) =>
          /\ stage' = "failed"
          /\ run'.outcome = "error"
          /\ db' = db]_vars
  /\ []((run.mode = "webhook" /\ stage = "failed") =>
          /\ \A i \in DOMAIN issued : issued[i] # "sets"
          /\ \A t \in Tasks : gw[t] = "idle")
  /\ [][{p.id : p \in db} \subseteq {p.id : p \in db'}]_vars

\* C36 witness: a webhook run has ended with an error after its upsert of
\* the workout returned none, the page of its routine and a page of a
\* template being written
C36_Witness ==
  /\ run.mode = "webhook" /\ stage = "failed" /\ run.error = "no_page"
  /\ run.routine_page_id # NoPage
  /\ \E p \in db : p.database = ROUTINES_DB /\ p.id = run.routine_page_id
  /\ \E p \in db : p.database = TEMPLATES_DB
  /\ \A p \in db : p.database # WORKOUTS_DB

\* C37 (SpecSeq): an upsert whose resolver found a page sends, in
\* create_or_update_page, only PATCH requests for that page; while it does,
\* the destination has the same pages, and their content changes only in
\* the step in which the upsert returns the id of the page; an upsert that
\* returns none or raises after a page was found has left the destination
\* as it was.
C37_FailedUpdateNoCreate ==
  /\ [](\A t \in Tasks :
          (pc[t] = "write" /\ found[t] # NoPage) =>
            \A q \in RequestsOf(t) :
              q.method = "PATCH" /\ q.url = "page" /\ q.page = found[t])
  /\ [][\A t \in Tasks :
          (pc[t] = "write" /\ found[t] # NoPage) =>
            /\ {p.id : p \in db'} = {p.id : p \in db}
            /\ nextPage' = nextPage
            /\ db' # db => pc'[t] = "done" /\ result'[t] = found[t]
            /\ (pc'[t] = "done" /\ result'[t] \in {NoPage, Exc}) => db' = db
            /\ pc'[t] \in {"write", "done"}]_vars

\* C37 witness: the second upsert of an entity found the page the first
\* one created, its PATCH was sent and failed, and the upsert returned
\* none, the destination holding that one page
C37_Witness ==
  /\ round = 2 /\ pc[1] = "done"
  /\ found[1] # NoPage /\ result[1] = NoPage
  /\ prev.result = found[1]
  /\ resp[1].status # 200
  /\ db = {Page(found[1], TEMPLATES_DB, Properties(HevyId(batch[1]), {}))}

----------------------------------------------------------------------------
(* add_workout_to_notion, the synchronous wrapper kept for the running     *)
(* webhook (notion_handler.py 803-900).  It sends its requests one after   *)
(* the other with `requests`, outside the gateway.                         *)

\* calls of add_workout_to_notion in a behaviour
MaxLegacyCalls == 3

\* the ids of the workouts it is called with
LegacyWorkouts == {"w1", "w2"}

\* what a request may end in: a response 200 or 503, or requests' Timeout
\* after timeout=10
LegacyResponses ==
  {HttpResponse(200, NoHeader), HttpResponse(503, NoHeader), TimeoutResponse}

\* Response.raise_for_status() raises HTTPError for a status 4xx or 5xx
RaisesForStatus(status) == status >= 400 /\ status < 600

\* a page of the workouts database: its id, its "Hevy ID" and its
\* "Last Synced", the call that wrote it last standing for the time
LegacyPage(id, workout_id, synced) ==
  [id |-> id, hevy |-> workout_id, synced |-> synced]

\* the call begins: the properties are built (lines 822-848)
AddWorkoutToNotion ==
  /\ legacy.pc = "idle"
  /\ legacy.calls < MaxLegacyCalls
  /\ \E workout_id \in LegacyWorkouts :
       legacy' = [legacy EXCEPT !.pc = "search", !.workout_id = workout_id,
                                !.page_id = NoPage, !.calls = @ + 1,
                                !.outcome = "running"]
  /\ UNCHANGED <<syncVars, loops, built, limiter>>

\* the query for the "Hevy ID" is answered (lines 859-870): with results,
\* the first is the page to update; with none, with another status, or
\* with a Timeout caught at line 880, the function goes on to "Create new"
LegacySearch ==
  /\ legacy.pc = "search"
  /\ \E search_response \in LegacyResponses :
       IF search_response.kind = "http" /\ search_response.status = 200
         THEN \E results \in Orders({p.id : p \in
                                       {q \in legacy.pages :
                                          q.hevy = legacy.workout_id}}) :
                IF results # <<>>
                  THEN legacy' = [legacy EXCEPT !.pc = "patch",
                                                !.page_id = results[1]]
                  ELSE legacy' = [legacy EXCEPT !.pc = "create"]
         ELSE legacy' = [legacy EXCEPT !.pc = "create"]
  /\ UNCHANGED <<syncVars, loops, built, limiter>>

\* the PATCH of the page is answered (lines 871-881): 200 returns; for
\* another status raise_for_status() raises HTTPError inside the `try`,
\* which `except requests.exceptions.RequestException` catches as it
\* catches a Timeout, and the function goes on to "Create new"; a status
\* that raises nothing leaves the `try` to the same place
LegacyUpdate ==
  /\ legacy.pc = "patch"
  /\ \E update_response \in LegacyResponses :
       IF update_response.kind = "http" /\ update_response.status = 200
         THEN legacy' =
                [legacy EXCEPT
                   !.pc = "idle", !.outcome = "updated",
                   !.pages = {IF p.id = legacy.page_id
                                THEN LegacyPage(p.id, legacy.workout_id,
                                                legacy.calls)
                                ELSE p : p \in legacy.pages}]
         ELSE legacy' = [legacy EXCEPT !.pc = "create"]
  /\ UNCHANGED <<syncVars, loops, built, limiter>>

\* the POST of a new page is answered (lines 883-900): 200 returns the
\* page; another status raises HTTPError from raise_for_status(), and a
\* Timeout is raised by the request, both to the caller
LegacyCreate ==
  /\ legacy.pc = "create"
  /\ \E response \in LegacyResponses :
       IF response.kind = "http" /\ response.status = 200
         THEN legacy' =
                [legacy EXCEPT
                   !.pc = "idle", !.outcome = "created",
                   !.pages = @ \cup {LegacyPage(legacy.nextPage,
                                                legacy.workout_id,
                                                legacy.calls)},
                   !.nextPage = @ + 1]
         ELSE IF response.kind = "timeout" \/ RaisesForStatus(response.status)
           THEN legacy' = [legacy EXCEPT !.pc = "idle", !.outcome = "raised"]
           ELSE legacy' = [legacy EXCEPT !.pc = "idle", !.outcome = "returned"]
  /\ UNCHANGED <<syncVars, loops, built, limiter>>

InitLegacy ==
  /\ NoSync
  /\ loops = NoLoops
  /\ built = NoBuilt
  /\ limiter = NoLimiter
  /\ legacy = NoLegacy

NextLegacy ==
  \/ AddWorkoutToNotion
  \/ LegacySearch
  \/ LegacyUpdate
  \/ LegacyCreate

SpecLegacy == InitLegacy /\ [][NextLegacy]_vars

----------------------------------------------------------------------------
(* The claim on add_workout_to_notion                                      *)

\* C38 (SpecLegacy): once the search of a call of add_workout_to_notion
\* has found a page, the call adds no page to the workouts database.
C38_NoSecondRecord ==
  [][(legacy.pc \in {"patch", "create"} /\ legacy.page_id # NoPage) =>
       {p.id : p \in legacy'.pages} = {p.id : p \in legacy.pages}]_vars

----------------------------------------------------------------------------
(* check_rate_limit (function_app.py 181-208).  The clock is read in whole *)
(* seconds and never goes back; a call runs from its first line to its    *)
(* return before the next one begins.                                      *)

\* MAX_REQUESTS_PER_MINUTE (line 24)
MAX_REQUESTS_PER_MINUTE == 10

\* timedelta(minutes=1), in seconds (lines 192 and 203)
WINDOW_SECONDS == 60

\* the last second of the clock in a behaviour
MaxClock == 61

\* the seconds that pass between two bursts of requests
ClockSteps == {30, 31}

\* the requests recorded for an identifier other than the busy one
MaxOtherChecks == 2

\* the identifier whose requests are not bounded
BusyIdentifier == "a"

\* Recent as it would be if old entries were never cleaned
RecentKeepsAll(times, cutoff) == times

\* [req_time for req_time in ... if req_time > cutoff] (lines 195-198)
Recent(times, cutoff) == SelectSeq(times, LAMBDA req_time : req_time > cutoff)

\* min(_request_counts[identifier]) (line 202)
Oldest(times) ==
  CHOOSE m \in {times[k] : k \in DOMAIN times} :
    \A k \in DOMAIN times : m <= times[k]

\* time passes
Tick ==
  /\ \E d \in ClockSteps :
       /\ limiter.now + d <= MaxClock
       /\ limiter' = [limiter EXCEPT !.now = @ + d]
  /\ UNCHANGED <<syncVars, loops, built, legacy>>

\* check_rate_limit(identifier)
CheckRateLimit(identifier) ==
  /\ identifier = BusyIdentifier
       \/ Len(limiter.allowed[identifier]) < MaxOtherChecks
  /\ LET now == limiter.now
         cutoff == now - WINDOW_SECONDS
         cleaned == Recent(limiter.counts[identifier], cutoff)
     IN  IF Len(cleaned) >= MAX_REQUESTS_PER_MINUTE
           THEN LET oldest == Oldest(cleaned)
                    retry_after == oldest + WINDOW_SECONDS - now
                IN  limiter' =
                      [limiter EXCEPT
                         !.counts[identifier] = cleaned,
                         !.last = [identifier |-> identifier,
                                   is_allowed |-> FALSE,
                                   retry_after |-> retry_after]]
           ELSE limiter' =
                  [limiter EXCEPT
                     !.counts[identifier] = Append(cleaned, now),
                     !.allowed[identifier] = Append(@, now),
                     !.last = [identifier |-> identifier,
                               is_allowed |-> TRUE, retry_after |-> 0]]
  /\ UNCHANGED <<syncVars, loops, built, legacy>>

InitRate ==
  /\ NoSync
  /\ loops = NoLoops
  /\ built = NoBuilt
  /\ legacy = NoLegacy
  /\ limiter = NoLimiter

NextRate ==
  \/ Tick
  \/ \E identifier \in Identifiers : CheckRateLimit(identifier)

SpecRate == InitRate /\ [][NextRate]_vars

----------------------------------------------------------------------------
(* The claim on check_rate_limit                                           *)

\* the number of the times that are younger than one minute at second now
Young(times, now) ==
  Cardinality({k \in DOMAIN times : times[k] > now - WINDOW_SECONDS})

\* C39 (SpecRate): of the requests check_rate_limit allowed for an
\* identifier, at most MAX_REQUESTS_PER_MINUTE lie in the 60 seconds that
\* end with any one of them; a call allows its request exactly when fewer
\* than MAX_REQUESTS_PER_MINUTE requests allowed for its identifier are
\* younger than one minute, and records it then; a call that rejects
\* records nothing and leaves the number of young entries of every
\* identifier as it was; no call changes the entries of another
\* identifier.
C39_SlidingWindowLimit ==
  /\ [](\A i \in Identifiers : \A k \in DOMAIN limiter.allowed[i] :
          Cardinality({j \in DOMAIN limiter.allowed[i] :
                         /\ limiter.allowed[i][j] > limiter.allowed[i][k] - WINDOW_SECONDS
                         /\ limiter.allowed[i][j] <= limiter.allowed[i][k]})
            <= MAX_REQUESTS_PER_MINUTE)
  /\ [](\A i \in Identifiers :
          Young(limiter.counts[i], limiter.now) = Young(limiter.allowed[i], limiter.now))
  /\ [][limiter'.now = limiter.now =>
          LET i == limiter'.last.identifier
              now == limiter.now
          IN  /\ limiter'.last.is_allowed
                   <=> Young(limiter.allowed[i], now) < MAX_REQUESTS_PER_MINUTE
              /\ limiter'.last.is_allowed =>
                   /\ limiter'.allowed[i] = Append(limiter.allowed[i], now)
                   /\ Young(limiter'.counts[i], now) = Young(limiter.counts[i], now) + 1
              /\ ~limiter'.last.is_allowed =>
                   /\ limiter'.allowed = limiter.allowed
                   /\ \A j \in Identifiers :
                        Young(limiter'.counts[j], now) = Young(limiter.counts[j], now)
                   /\ limiter'.last.retry_after > 0
                   /\ limiter'.last.retry_after <= WINDOW_SECONDS
              /\ \A j \in Identifiers \ {i} :
                   /\ limiter'.counts[j] = limiter.counts[j]
                   /\ limiter'.allowed[j] = limiter.allowed[j]]_vars

\* C39 witness: a request of the busy identifier is rejected in a minute in
\* which ten of its requests were allowed, after older ones were cleaned,
\* while the other identifier, with one request on record, was allowed
C39_Witness ==
  /\ limiter.last = [identifier |-> BusyIdentifier, is_allowed |-> FALSE,
                     retry_after |-> limiter.last.retry_after]
  /\ Len(limiter.allowed[BusyIdentifier]) > MAX_REQUESTS_PER_MINUTE
  /\ Len(limiter.counts[BusyIdentifier]) = MAX_REQUESTS_PER_MINUTE
  /\ limiter.now >= WINDOW_SECONDS
  /\ \E j \in Identifiers \ {BusyIdentifier} : Len(limiter.counts[j]) = 1

====
